---------------------------- MODULE Spec2Model ----------------------------
(*
  Model of consensus/alien/custom_tx.go: the custom-transaction interpreter
  that folds the transactions of one block into the HeaderExtra accumulator.

  Strings are sequences of one-character strings, so that strings.Split,
  strconv.Atoi and big.Int.SetString are computed character by character.
  An address is written as its hex digits, AddressLength bytes of them;
  ZeroAddr is common.Address{} and NoTo stands for tx.To() == nil.
*)
EXTENDS Integers, Sequences, FiniteSets, TLC

\* ------------------------------------------------------------------ bounds

\* a.config.MaxSignerCount (params.AlienConfig), 21 on the main net; kept
\* below the number of addresses so that a full list still has an outsider.
MaxSignerCount == 2

\* the number of transactions of a block
MaxTxs == 2

\* ------------------------------------------------------- string constants

dposPrefix == <<"d", "p", "o", "s">>
dposVersion == <<"1">>
dposCategoryEvent == <<"e", "v", "e", "n", "t">>
dposCategoryAdmin == <<"a", "d", "m", "i", "n">>
dposEventVote == <<"v", "o", "t", "e">>
dposEventConfirm == <<"c", "o", "n", "f", "i", "r", "m">>
dposEventPorposal == <<"p", "r", "o", "p", "o", "s", "a", "l">>
dposEventDeclare == <<"d", "e", "c", "l", "a", "r", "e">>
dposAdminAddSigner == <<"a", "d", "d", "s">>
dposAdminDelSigner == <<"d", "e", "l", "s">>
dposAdminModifyAdmin == <<"m", "o", "d", "a", "d", "m", "i", "n">>
dposAdminModifyMinerReward == <<"m", "o", "d", "r", "e", "w", "a", "r", "d">>
dposAdminModifyMinerRatio == <<"m", "o", "d", "r", "a", "t", "i", "o">>

dposMinSplitLen == 4
posEventProposal == 3
posEventDeclare == 3
posEventConfirmNumber == 4
\* Go indexes from 0, TLA+ sequences from 1: txDataInfo[posX] is info[posX + 1]
posPrefix == 0
posVersion == 1
posCategory == 2
posAdminEvent == 3
posAdminEventBlockReward == 4
posAdminEventMinerRatio == 4

proposalTypeCandidateAdd == 1
proposalTypeRentSideChain == 8

maxValidationLoopCnt == 50000
minValidationLoopCnt == 4
defaultValidationLoopCnt == 10000
maxProposalDeposit == 100000
minSCRentFee == 100
minSCRentLength == 850000
defaultSCRentLength == minSCRentLength * 3
maxSCRentLength == defaultSCRentLength * 4

\* big.NewInt(1e+18), the number of wei of one coin. Amounts are kept in
\* wei; the unit is scaled down so that they stay within TLC's 32-bit
\* integers.
Ether == 10

\* the package variables proposalDeposit, minVoterBalance and
\* minerRewardPerThousand, which the snapshot code sets
proposalDeposit == 20 * Ether
minVoterBalance == 10 * Ether
minerRewardPerThousand == 618

\* common.AddressLength and common.HashLength in bytes, scaled down
AddressLength == 1
HashLength == 2

\* --------------------------------------------------------------- strings

\* strings.Split(s, ":"): the tokens between the colons; "" gives [""]
RECURSIVE SplitAcc(_, _, _)
SplitAcc(s, cur, acc) ==
    IF s = <<>> THEN Append(acc, cur)
    ELSE IF Head(s) = ":" THEN SplitAcc(Tail(s), <<>>, Append(acc, cur))
    ELSE SplitAcc(Tail(s), Append(cur, Head(s)), acc)

Split(s) == SplitAcc(s, <<>>, <<>>)

DigitChars == {"0", "1", "2", "3", "4", "5", "6", "7", "8", "9"}

DigitVal(c) ==
    CASE c = "0" -> 0 [] c = "1" -> 1 [] c = "2" -> 2 [] c = "3" -> 3
      [] c = "4" -> 4 [] c = "5" -> 5 [] c = "6" -> 6 [] c = "7" -> 7
      [] c = "8" -> 8 [] c = "9" -> 9

RECURSIVE StripZeros(_)
StripZeros(ds) ==
    IF Len(ds) > 1 /\ Head(ds) = "0" THEN StripZeros(Tail(ds)) ELSE ds

\* the value of a digit string, most significant digit first
RECURSIVE DigitsValue(_, _)
DigitsValue(ds, acc) ==
    IF ds = <<>> THEN acc ELSE DigitsValue(Tail(ds), acc * 10 + DigitVal(Head(ds)))

\* ds > limit for two digit strings of the same length
RECURSIVE DigitsGreater(_, _)
DigitsGreater(ds, limit) ==
    IF ds = <<>> THEN FALSE
    ELSE IF DigitVal(Head(ds)) # DigitVal(Head(limit))
         THEN DigitVal(Head(ds)) > DigitVal(Head(limit))
         ELSE DigitsGreater(Tail(ds), Tail(limit))

\* 2^63 - 1 and 2^63, the bounds of a Go int on a 64-bit build
MaxInt64Digits ==
    <<"9", "2", "2", "3", "3", "7", "2", "0", "3", "6", "8", "5", "4", "7", "7", "5", "8", "0", "7">>
MinInt64Digits ==
    <<"9", "2", "2", "3", "3", "7", "2", "0", "3", "6", "8", "5", "4", "7", "7", "5", "8", "0", "8">>

HasSign(s) == s # <<>> /\ Head(s) \in {"+", "-"}
Unsigned(s) == IF HasSign(s) THEN Tail(s) ELSE s
IsNegative(s) == s # <<>> /\ Head(s) = "-"
AllDigits(s) == s # <<>> /\ \A i \in 1..Len(s) : s[i] \in DigitChars

SignedValue(s) ==
    LET v == DigitsValue(StripZeros(Unsigned(s)), 0)
    IN IF IsNegative(s) THEN 0 - v ELSE v

\* strconv.Atoi(s): an optional sign, then decimal digits, within int64
Atoi(s) ==
    LET ds == StripZeros(Unsigned(s))
        limit == IF IsNegative(s) THEN MinInt64Digits ELSE MaxInt64Digits
    IN IF ~AllDigits(Unsigned(s)) THEN [ok |-> FALSE, val |-> 0]
       ELSE IF Len(ds) > 19 \/ (Len(ds) = 19 /\ DigitsGreater(ds, limit))
            THEN [ok |-> FALSE, val |-> 0]
            ELSE [ok |-> TRUE, val |-> SignedValue(s)]

\* new(big.Int).SetString(s, 10): an optional sign, then decimal digits
BigSetString10(s) ==
    IF AllDigits(Unsigned(s)) THEN [ok |-> TRUE, val |-> SignedValue(s)]
    ELSE [ok |-> FALSE, val |-> 0]

\* the keys of proposal and declare commands
K_vlcnt == <<"v", "l", "c", "n", "t">>
K_schash == <<"s", "c", "h", "a", "s", "h">>
K_sccount == <<"s", "c", "c", "o", "u", "n", "t">>
K_screward == <<"s", "c", "r", "e", "w", "a", "r", "d">>
K_proposal_type == <<"p", "r", "o", "p", "o", "s", "a", "l", "_", "t", "y", "p", "e">>
K_candidate == <<"c", "a", "n", "d", "i", "d", "a", "t", "e">>
K_mrpt == <<"m", "r", "p", "t">>
K_mvb == <<"m", "v", "b">>
K_mpd == <<"m", "p", "d">>
K_scrt == <<"s", "c", "r", "t">>
K_scrf == <<"s", "c", "r", "f">>
K_scrr == <<"s", "c", "r", "r">>
K_scrl == <<"s", "c", "r", "l">>
K_hash == <<"h", "a", "s", "h">>
K_decision == <<"d", "e", "c", "i", "s", "i", "o", "n">>
K_yes == <<"y", "e", "s">>
K_no == <<"n", "o">>

\* ------------------------------------------------------------- addresses

A1 == <<"a", "1">>
A2 == <<"a", "2">>
A3 == <<"a", "3">>
Addrs == {A1, A2, A3}
ZeroAddr == <<"0", "0">>
NoTo == <<>>

\* ----------------------------------------------------------------- state

VARIABLES
    headerExtra,  \* the HeaderExtra accumulator being built
    balance,      \* state.GetBalance / state.SetBalance, per address
    voters,       \* the addresses snap.isVoter reports
    number,       \* header.Number
    snapOk,       \* whether a.snapshot(...) of the parent block succeeds
    pc,           \* "start", "loop" (inside for _, tx := range txs), "done"
    err,          \* the error processCustomTx returns
    refundGas,    \* the RefundGas processCustomTx returns
    idx,          \* how many transactions of the block are folded
    lastTx,       \* the transaction folded last (its op names the function)
    prev,         \* headerExtra, balance and refundHash before lastTx
    admin0,       \* SignerAdmin of the accumulator processCustomTx was given
    refundHash,   \* the RefundHash map handed to processEventConfirm
    wire          \* the bytes encodeHeaderExtra has returned

vars ==
    <<headerExtra, balance, voters, number, snapOk, pc, err, refundGas, idx,
      lastTx, prev, admin0, refundHash, wire>>

\* ------------------------------------------------------ admin commands

\* processAdminSigner adding up to and including MaxSignerCount entries
processAdminSigner_oneMore(signers, op, to) ==
    LET kept == IF op = dposAdminDelSigner /\ Len(signers) > 1
                THEN SelectSeq(signers, LAMBDA s : s # to) ELSE signers
        repeated == op = dposAdminAddSigner /\ \E i \in 1..Len(signers) : signers[i] = to
    IN IF ~repeated /\ op = dposAdminAddSigner /\ Len(kept) <= MaxSignerCount
       THEN Append(kept, to) ELSE kept

\* processAdminSigner taking `to` out of the list for adds as well, so that a
\* present signer moves to the end
processAdminSigner_movesToEnd(signers, op, to) ==
    LET kept == IF Len(signers) > 1
                THEN SelectSeq(signers, LAMBDA s : s # to) ELSE signers
        repeated == op = dposAdminAddSigner /\ \E i \in 1..Len(kept) : kept[i] = to
    IN IF ~repeated /\ op = dposAdminAddSigner /\ Len(kept) < MaxSignerCount
       THEN Append(kept, to) ELSE kept

\* processAdminSigner without the len(signers) > 1 guard of dels
processAdminSigner_delLast(signers, op, to) ==
    LET kept == IF op = dposAdminDelSigner
                THEN SelectSeq(signers, LAMBDA s : s # to) ELSE signers
        repeated == op = dposAdminAddSigner /\ \E i \in 1..Len(signers) : signers[i] = to
    IN IF ~repeated /\ op = dposAdminAddSigner /\ Len(kept) < MaxSignerCount
       THEN Append(kept, to) ELSE kept

\* processAdminSigner without the repeated flag: a present signer is added again
processAdminSigner_noRepeat(signers, op, to) ==
    LET kept == IF op = dposAdminDelSigner /\ Len(signers) > 1
                THEN SelectSeq(signers, LAMBDA s : s # to) ELSE signers
    IN IF op = dposAdminAddSigner /\ Len(kept) < MaxSignerCount
       THEN Append(kept, to) ELSE kept

\* processAdminSigner: the loop keeps every signer but, for dels on a list of
\* more than one entry, those equal to `to`; adds appends `to` when it was not
\* met in the loop and the list is below MaxSignerCount
processAdminSigner(signers, op, to) ==
    LET kept == IF op = dposAdminDelSigner /\ Len(signers) > 1
                THEN SelectSeq(signers, LAMBDA s : s # to) ELSE signers
        repeated == op = dposAdminAddSigner /\ \E i \in 1..Len(signers) : signers[i] = to
    IN IF ~repeated /\ op = dposAdminAddSigner /\ Len(kept) < MaxSignerCount
       THEN Append(kept, to) ELSE kept

\* the result of processAdminPerBlockReward: nil or a *big.Int
NilReward == [isNil |-> TRUE, val |-> 0]
SomeReward(v) == [isNil |-> FALSE, val |-> v]

\* processAdminPerBlockReward reading the event token instead of the value token
processAdminPerBlockReward_wrongPos(txDataInfo) ==
    IF Len(txDataInfo) <= dposMinSplitLen THEN NilReward
    ELSE LET r == BigSetString10(txDataInfo[posAdminEvent + 1])
         IN IF r.ok THEN SomeReward(r.val) ELSE NilReward

processAdminPerBlockReward(txDataInfo) ==
    IF Len(txDataInfo) <= dposMinSplitLen THEN NilReward
    ELSE LET r == BigSetString10(txDataInfo[posAdminEventBlockReward + 1])
         IN IF r.ok THEN SomeReward(r.val) ELSE NilReward

\* processAdminMinerRatio with newMinerRatio <= 0 rejected (0 refused)
processAdminMinerRatio_noZero(txDataInfo) ==
    IF Len(txDataInfo) <= dposMinSplitLen THEN -1
    ELSE LET r == Atoi(txDataInfo[posAdminEventMinerRatio + 1])
         IN IF ~r.ok \/ r.val <= 0 THEN -1 ELSE r.val

processAdminMinerRatio(txDataInfo) ==
    IF Len(txDataInfo) <= dposMinSplitLen THEN -1
    ELSE LET r == Atoi(txDataInfo[posAdminEventMinerRatio + 1])
         IN IF ~r.ok \/ r.val < 0 THEN -1 ELSE r.val

\* ------------------------------------------------- predecessor voters

Vote(voter, candidate, stake) ==
    [Voter |-> voter, Candidate |-> candidate, Stake |-> stake]

\* the snapshot of the parent block: the voters and the registered side chains
Snapshot(vs, scs) == [voters |-> vs, sideChains |-> scs]

isVoter(snap, a) == a \in snap.voters

isSideChainExist(snap, h) == h \in snap.sideChains

\* state.GetBalance(a): 0 for an account the state does not hold
GetBalance(state, a) == IF a \in DOMAIN state THEN state[a] ELSE 0

\* state.SetBalance(a, v)
SetBalance(state, a, v) == [b \in DOMAIN state \cup {a} |-> IF b = a THEN v ELSE state[b]]

\* the recipient looked at before the sender
processPredecessorVoter_recipientFirst(modifyPredecessorVotes, state, tx, voter, snap) ==
    IF tx.value > 0 /\ tx.to # NoTo
    THEN LET first == IF isVoter(snap, tx.to)
                      THEN Append(modifyPredecessorVotes,
                                  Vote(tx.to, ZeroAddr, GetBalance(state, tx.to)))
                      ELSE modifyPredecessorVotes
         IN IF isVoter(snap, voter)
            THEN Append(first, Vote(voter, ZeroAddr, GetBalance(state, voter)))
            ELSE first
    ELSE modifyPredecessorVotes

processPredecessorVoter(modifyPredecessorVotes, state, tx, voter, snap) ==
    IF tx.value > 0 /\ tx.to # NoTo
    THEN LET first == IF isVoter(snap, voter)
                      THEN Append(modifyPredecessorVotes,
                                  Vote(voter, ZeroAddr, GetBalance(state, voter)))
                      ELSE modifyPredecessorVotes
         IN IF isVoter(snap, tx.to)
            THEN Append(first, Vote(tx.to, ZeroAddr, GetBalance(state, tx.to)))
            ELSE first
    ELSE modifyPredecessorVotes

\* ------------------------------------------------------ event commands

HexChars ==
    DigitChars \cup {"a", "b", "c", "d", "e", "f", "A", "B", "C", "D", "E", "F"}

LowerHex(c) ==
    CASE c = "A" -> "a" [] c = "B" -> "b" [] c = "C" -> "c"
      [] c = "D" -> "d" [] c = "E" -> "e" [] c = "F" -> "f" [] OTHER -> c

\* hexutil.UnmarshalFixedText(input, out) for an out of `length` bytes: 0x or
\* 0X, then exactly 2 * length hex digits; anything else is an error and
\* leaves out as it was. The callers drop the error.
UnmarshalFixedText(input, out, length) ==
    IF /\ Len(input) = 2 + 2 * length
       /\ input[1] = "0" /\ input[2] \in {"x", "X"}
       /\ \A i \in 3..Len(input) : input[i] \in HexChars
    THEN [i \in 1..(2 * length) |-> LowerHex(input[i + 2])]
    ELSE out

ZeroHash == <<"0", "0", "0", "0">>

\* the side chains the snapshot holds
SC1 == <<"5", "c", "0", "1">>
SideChains == {SC1}

\* uint64(x) of a Go int: a negative x wraps to 2^64 + x, written as
\* wraps * 2^64 + val
Uint64(x) == [wraps |-> IF x < 0 THEN 1 ELSE 0, val |-> x]

\* processEventVote taking the balance of the candidate as the stake
processEventVote_candidateStake(currentBlockVotes, state, tx, voter) ==
    Append(currentBlockVotes, Vote(voter, tx.to, GetBalance(state, tx.to)))

\* processEventVote, for a transaction with a recipient (*tx.To() of a
\* transaction without one is a nil dereference)
processEventVote(currentBlockVotes, state, tx, voter) ==
    Append(currentBlockVotes, Vote(voter, tx.to, GetBalance(state, voter)))

\* the proposal started with the shortest rent length instead of the default
DefaultProposal_shortestRent(tx, proposer) ==
    [ Hash |-> tx.hash,
      ReceivedNumber |-> 0,
      CurrentDeposit |-> proposalDeposit,
      ValidationLoopCnt |-> defaultValidationLoopCnt,
      ProposalType |-> Uint64(proposalTypeCandidateAdd),
      Proposer |-> proposer,
      TargetAddress |-> ZeroAddr,
      SCHash |-> ZeroHash,
      SCBlockCountPerPeriod |-> Uint64(1),
      SCBlockRewardPerPeriod |-> Uint64(0),
      MinerRewardPerThousand |-> minerRewardPerThousand,
      Declares |-> <<>>,
      MinVoterBalance |-> minVoterBalance \div Ether,
      ProposalDeposit |-> proposalDeposit \div Ether,
      SCRentFee |-> 0,
      SCRentRate |-> 1,
      SCRentLength |-> minSCRentLength ]

\* lines 419-437: the proposal a command starts from
DefaultProposal(tx, proposer) ==
    [ Hash |-> tx.hash,
      ReceivedNumber |-> 0,
      CurrentDeposit |-> proposalDeposit,
      ValidationLoopCnt |-> defaultValidationLoopCnt,
      ProposalType |-> Uint64(proposalTypeCandidateAdd),
      Proposer |-> proposer,
      TargetAddress |-> ZeroAddr,
      SCHash |-> ZeroHash,
      SCBlockCountPerPeriod |-> Uint64(1),
      SCBlockRewardPerPeriod |-> Uint64(0),
      MinerRewardPerThousand |-> minerRewardPerThousand,
      Declares |-> <<>>,
      MinVoterBalance |-> minVoterBalance \div Ether,
      ProposalDeposit |-> proposalDeposit \div Ether,
      SCRentFee |-> 0,
      SCRentRate |-> 1,
      SCRentLength |-> defaultSCRentLength ]

Rejected(p) == [ok |-> FALSE, p |-> p]
Accepted(p) == [ok |-> TRUE, p |-> p]

\* one case of the switch of lines 441-517; ok is FALSE where the code
\* returns currentBlockProposals
ProposalKey(proposal, k, v) ==
    LET n == Atoi(v)
    IN CASE k = K_vlcnt ->
              IF ~n.ok \/ n.val < minValidationLoopCnt \/ n.val > maxValidationLoopCnt
              THEN Rejected(proposal)
              ELSE Accepted([proposal EXCEPT !.ValidationLoopCnt = n.val])
         [] k = K_schash ->
              Accepted([proposal EXCEPT !.SCHash = UnmarshalFixedText(v, @, HashLength)])
         [] k = K_sccount ->
              IF ~n.ok THEN Rejected(proposal)
              ELSE Accepted([proposal EXCEPT !.SCBlockCountPerPeriod = Uint64(n.val)])
         [] k = K_screward ->
              IF ~n.ok THEN Rejected(proposal)
              ELSE Accepted([proposal EXCEPT !.SCBlockRewardPerPeriod = Uint64(n.val)])
         [] k = K_proposal_type ->
              IF ~n.ok THEN Rejected(proposal)
              ELSE Accepted([proposal EXCEPT !.ProposalType = Uint64(n.val)])
         [] k = K_candidate ->
              Accepted([proposal EXCEPT
                  !.TargetAddress = UnmarshalFixedText(v, @, AddressLength)])
         [] k = K_mrpt ->
              IF ~n.ok \/ n.val <= 0 \/ n.val > 1000 THEN Rejected(proposal)
              ELSE Accepted([proposal EXCEPT !.MinerRewardPerThousand = n.val])
         [] k = K_mvb ->
              IF ~n.ok \/ n.val <= 0 THEN Rejected(proposal)
              ELSE Accepted([proposal EXCEPT !.MinVoterBalance = n.val])
         [] k = K_mpd ->
              IF ~n.ok \/ n.val <= 0 \/ n.val > maxProposalDeposit THEN Rejected(proposal)
              ELSE Accepted([proposal EXCEPT !.ProposalDeposit = n.val])
         [] k = K_scrt ->
              Accepted([proposal EXCEPT
                  !.TargetAddress = UnmarshalFixedText(v, @, AddressLength)])
         [] k = K_scrf ->
              IF ~n.ok \/ n.val < minSCRentFee THEN Rejected(proposal)
              ELSE Accepted([proposal EXCEPT !.SCRentFee = n.val])
         [] k = K_scrr ->
              IF ~n.ok \/ n.val <= 0 THEN Rejected(proposal)
              ELSE Accepted([proposal EXCEPT !.SCRentRate = n.val])
         [] k = K_scrl ->
              IF ~n.ok \/ n.val < minSCRentLength \/ n.val > maxSCRentLength
              THEN Rejected(proposal)
              ELSE Accepted([proposal EXCEPT !.SCRentLength = n.val])
         [] OTHER -> Accepted(proposal)

\* the loop going on to the next pair where a case returns
RECURSIVE ProposalKeys_skipRejected(_, _, _)
ProposalKeys_skipRejected(proposal, txDataInfo, i) ==
    IF i >= (Len(txDataInfo) - (posEventProposal + 1)) \div 2 THEN Accepted(proposal)
    ELSE LET r == ProposalKey(proposal, txDataInfo[posEventProposal + 1 + i * 2 + 1],
                              txDataInfo[posEventProposal + 2 + i * 2 + 1])
         IN ProposalKeys_skipRejected(r.p, txDataInfo, i + 1)

\* the loop of lines 439-518 from pair i on
RECURSIVE ProposalKeys(_, _, _)
ProposalKeys(proposal, txDataInfo, i) ==
    IF i >= (Len(txDataInfo) - (posEventProposal + 1)) \div 2 THEN Accepted(proposal)
    ELSE LET r == ProposalKey(proposal, txDataInfo[posEventProposal + 1 + i * 2 + 1],
                              txDataInfo[posEventProposal + 2 + i * 2 + 1])
         IN IF r.ok THEN ProposalKeys(r.p, txDataInfo, i + 1) ELSE r

\* the rent fee left out of the cost
currentProposalPay_noFee(proposal) == proposalDeposit

\* lines 520-530: what the proposal costs
currentProposalPay(proposal) ==
    IF proposal.ProposalType = Uint64(proposalTypeRentSideChain)
    THEN proposalDeposit + proposal.SCRentFee * Ether
    ELSE proposalDeposit

\* processEventProposal taking the deposit before the side chain and the
\* target of a rent are looked at, so that a refused rent is paid for
processEventProposal_paysWhenRefused(currentBlockProposals, txDataInfo, state, tx, proposer, snap) ==
    LET same == [proposals |-> currentBlockProposals, state |-> state]
        r == ProposalKeys(DefaultProposal(tx, proposer), txDataInfo, 0)
        paid == SetBalance(state, proposer,
                           GetBalance(state, proposer) - currentProposalPay(r.p))
    IN IF Len(txDataInfo) <= posEventProposal + 2 THEN same
       ELSE IF ~r.ok THEN same
       ELSE IF GetBalance(state, proposer) < currentProposalPay(r.p) THEN same
       ELSE IF /\ r.p.ProposalType = Uint64(proposalTypeRentSideChain)
               /\ (~isSideChainExist(snap, r.p.SCHash) \/ r.p.TargetAddress = ZeroAddr)
       THEN [proposals |-> currentBlockProposals, state |-> paid]
       ELSE [proposals |-> Append(currentBlockProposals, r.p), state |-> paid]

\* processEventProposal without the balance check of line 532
processEventProposal_noBalanceCheck(currentBlockProposals, txDataInfo, state, tx, proposer, snap) ==
    LET same == [proposals |-> currentBlockProposals, state |-> state]
        r == ProposalKeys(DefaultProposal(tx, proposer), txDataInfo, 0)
    IN IF Len(txDataInfo) <= posEventProposal + 2 THEN same
       ELSE IF ~r.ok THEN same
       ELSE IF /\ r.p.ProposalType = Uint64(proposalTypeRentSideChain)
               /\ (~isSideChainExist(snap, r.p.SCHash) \/ r.p.TargetAddress = ZeroAddr)
       THEN same
       ELSE [ proposals |-> Append(currentBlockProposals, r.p),
              state |-> SetBalance(state, proposer,
                                   GetBalance(state, proposer) - currentProposalPay(r.p)) ]

\* processEventProposal without the SetBalance of line 536
processEventProposal_noDebit(currentBlockProposals, txDataInfo, state, tx, proposer, snap) ==
    LET same == [proposals |-> currentBlockProposals, state |-> state]
        r == ProposalKeys(DefaultProposal(tx, proposer), txDataInfo, 0)
    IN IF Len(txDataInfo) <= posEventProposal + 2 THEN same
       ELSE IF ~r.ok THEN same
       ELSE IF /\ r.p.ProposalType = Uint64(proposalTypeRentSideChain)
               /\ (~isSideChainExist(snap, r.p.SCHash) \/ r.p.TargetAddress = ZeroAddr)
       THEN same
       ELSE IF GetBalance(state, proposer) < currentProposalPay(r.p) THEN same
       ELSE [proposals |-> Append(currentBlockProposals, r.p), state |-> state]

\* processEventProposal checking the balance against the deposit alone, the
\* rent fee left out of the comparison
processEventProposal_depositOnlyCheck(currentBlockProposals, txDataInfo, state, tx, proposer, snap) ==
    LET same == [proposals |-> currentBlockProposals, state |-> state]
        r == ProposalKeys(DefaultProposal(tx, proposer), txDataInfo, 0)
    IN IF Len(txDataInfo) <= posEventProposal + 2 THEN same
       ELSE IF ~r.ok THEN same
       ELSE IF /\ r.p.ProposalType = Uint64(proposalTypeRentSideChain)
               /\ (~isSideChainExist(snap, r.p.SCHash) \/ r.p.TargetAddress = ZeroAddr)
       THEN same
       ELSE IF GetBalance(state, proposer) < proposalDeposit THEN same
       ELSE [ proposals |-> Append(currentBlockProposals, r.p),
              state |-> SetBalance(state, proposer,
                                   GetBalance(state, proposer) - currentProposalPay(r.p)) ]

\* processEventProposal: the proposal list and the world state it leaves
processEventProposal(currentBlockProposals, txDataInfo, state, tx, proposer, snap) ==
    LET same == [proposals |-> currentBlockProposals, state |-> state]
        r == ProposalKeys(DefaultProposal(tx, proposer), txDataInfo, 0)
    IN IF Len(txDataInfo) <= posEventProposal + 2 THEN same
       ELSE IF ~r.ok THEN same
       ELSE IF /\ r.p.ProposalType = Uint64(proposalTypeRentSideChain)
               /\ (~isSideChainExist(snap, r.p.SCHash) \/ r.p.TargetAddress = ZeroAddr)
       THEN same
       ELSE IF GetBalance(state, proposer) < currentProposalPay(r.p) THEN same
       ELSE [ proposals |-> Append(currentBlockProposals, r.p),
              state |-> SetBalance(state, proposer,
                                   GetBalance(state, proposer) - currentProposalPay(r.p)) ]

\* ----------------------------------------------------- declare commands

Declare(proposalHash, declarer, decision) ==
    [ProposalHash |-> proposalHash, Declarer |-> declarer, Decision |-> decision]

\* the switch with a hash that does not decode returning the list
DeclareKey_hashChecked(declare, k, v) ==
    CASE k = K_hash ->
           IF UnmarshalFixedText(v, <<>>, HashLength) = <<>> THEN Rejected(declare)
           ELSE Accepted([declare EXCEPT !.ProposalHash = UnmarshalFixedText(v, @, HashLength)])
      [] k = K_decision ->
           IF v = K_yes THEN Accepted([declare EXCEPT !.Decision = TRUE])
           ELSE IF v = K_no THEN Accepted([declare EXCEPT !.Decision = FALSE])
           ELSE Rejected(declare)
      [] OTHER -> Accepted(declare)

\* the switch with a default case that returns the list
DeclareKey_unknownRejected(declare, k, v) ==
    CASE k = K_hash ->
           Accepted([declare EXCEPT !.ProposalHash = UnmarshalFixedText(v, @, HashLength)])
      [] k = K_decision ->
           IF v = K_yes THEN Accepted([declare EXCEPT !.Decision = TRUE])
           ELSE IF v = K_no THEN Accepted([declare EXCEPT !.Decision = FALSE])
           ELSE Rejected(declare)
      [] OTHER -> Rejected(declare)

\* one case of the switch of lines 552-563; ok is FALSE where the code
\* returns currentBlockDeclares
DeclareKey(declare, k, v) ==
    CASE k = K_hash ->
           Accepted([declare EXCEPT !.ProposalHash = UnmarshalFixedText(v, @, HashLength)])
      [] k = K_decision ->
           IF v = K_yes THEN Accepted([declare EXCEPT !.Decision = TRUE])
           ELSE IF v = K_no THEN Accepted([declare EXCEPT !.Decision = FALSE])
           ELSE Rejected(declare)
      [] OTHER -> Accepted(declare)

\* the loop of lines 550-564 from pair i on
RECURSIVE DeclareKeys(_, _, _)
DeclareKeys(declare, txDataInfo, i) ==
    IF i >= (Len(txDataInfo) - (posEventDeclare + 1)) \div 2 THEN Accepted(declare)
    ELSE LET r == DeclareKey(declare, txDataInfo[posEventDeclare + 1 + i * 2 + 1],
                             txDataInfo[posEventDeclare + 2 + i * 2 + 1])
         IN IF r.ok THEN DeclareKeys(r.p, txDataInfo, i + 1) ELSE r

\* processEventDeclare without the length test: a command without any pair
\* is recorded with the defaults
processEventDeclare_noPairNeeded(currentBlockDeclares, txDataInfo, tx, declarer) ==
    LET r == DeclareKeys(Declare(ZeroHash, declarer, TRUE), txDataInfo, 0)
    IN IF ~r.ok THEN currentBlockDeclares
       ELSE Append(currentBlockDeclares, r.p)

\* the Declare built with a negative decision by default
processEventDeclare_defaultNo(currentBlockDeclares, txDataInfo, tx, declarer) ==
    LET r == DeclareKeys(Declare(ZeroHash, declarer, FALSE), txDataInfo, 0)
    IN IF Len(txDataInfo) <= posEventDeclare + 2 THEN currentBlockDeclares
       ELSE IF ~r.ok THEN currentBlockDeclares
       ELSE Append(currentBlockDeclares, r.p)

processEventDeclare(currentBlockDeclares, txDataInfo, tx, declarer) ==
    LET r == DeclareKeys(Declare(ZeroHash, declarer, TRUE), txDataInfo, 0)
    IN IF Len(txDataInfo) <= posEventDeclare + 2 THEN currentBlockDeclares
       ELSE IF ~r.ok THEN currentBlockDeclares
       ELSE Append(currentBlockDeclares, r.p)

\* ----------------------------------------------------- confirm commands

\* the digits of base b
BaseDigits(b) ==
    CASE b = 2 -> {"0", "1"}
      [] b = 8 -> {"0", "1", "2", "3", "4", "5", "6", "7"}
      [] b = 10 -> DigitChars
      [] b = 16 -> HexChars

HexVal(c) ==
    CASE c \in DigitChars -> DigitVal(c)
      [] LowerHex(c) = "a" -> 10 [] LowerHex(c) = "b" -> 11 [] LowerHex(c) = "c" -> 12
      [] LowerHex(c) = "d" -> 13 [] LowerHex(c) = "e" -> 14 [] LowerHex(c) = "f" -> 15

RECURSIVE BaseValue(_, _, _)
BaseValue(ds, b, acc) ==
    IF ds = <<>> THEN acc ELSE BaseValue(Tail(ds), b, acc * b + HexVal(Head(ds)))

\* an underscore separates digits: it follows a digit or the base prefix and
\* a digit follows it
ValidSeparators(t, hasPrefix) ==
    \A i \in 1..Len(t) :
        t[i] = "_" => /\ i # Len(t)
                      /\ IF i = 1 THEN hasPrefix ELSE t[i - 1] # "_"

\* (*big.Int).UnmarshalText(s): the whole of s is read in base 0, that is an
\* optional sign, then 0x, 0b or 0o and digits of that base, or 0 and octal
\* digits, or decimal digits (the syntax of Go 1.13 and later; earlier
\* releases read no 0o and no underscore)
BigUnmarshalText(s) ==
    LET rest == Unsigned(s)
        hasPrefix == Len(rest) >= 2 /\ rest[1] = "0"
        letter == hasPrefix /\ rest[2] \in {"x", "X", "b", "B", "o", "O"}
        base == IF ~hasPrefix THEN 10
                ELSE IF rest[2] \in {"x", "X"} THEN 16
                ELSE IF rest[2] \in {"b", "B"} THEN 2
                ELSE 8
        t == IF letter THEN SubSeq(rest, 3, Len(rest))
             ELSE IF hasPrefix THEN Tail(rest) ELSE rest
        digits == SelectSeq(t, LAMBDA c : c # "_")
        v == BaseValue(digits, base, 0)
    IN IF /\ digits # <<>>
          /\ \A i \in 1..Len(digits) : digits[i] \in BaseDigits(base)
          /\ ValidSeparators(t, hasPrefix)
       THEN [ok |-> TRUE, val |-> IF IsNegative(s) THEN 0 - v ELSE v]
       ELSE [ok |-> FALSE, val |-> 0]

\* (*big.Int).Uint64(): the low 64 bits of the absolute value; the sign is
\* not looked at (math/big calls the result undefined for a negative x and
\* computes it so)
BigUint64(x) == IF x < 0 THEN 0 - x ELSE x

\* the comparison made on the signed difference
Uint64Greater_signed(u, m) == u.val > m

\* u > m for a uint64 u and a small m
Uint64Greater(u, m) == u.wraps = 1 \/ u.val > m

\* len of the vanity and seal regions of header.Extra, scaled down
extraVanity == 2
extraSeal == 3

\* ------------------------------------------------------------------ rlp

\* The rlp package is not part of the sources read here; what follows is the
\* encoding as the package defines it. Bytes are the integers 0..255. An
\* item is a byte string or a list of items.

String(b) == [isList |-> FALSE, bytes |-> b, items |-> <<>>]
List(l) == [isList |-> TRUE, bytes |-> <<>>, items |-> l]

\* the Go types of the fields: uint64 held as an integer, uint64 held as
\* Uint64(x), *big.Int that is never nil in the records of the model and is
\* held as an integer, *big.Int that may be nil, bool, string, [n]byte, slice
\* and struct
T_uint == [k |-> "uint"]
T_uint64 == [k |-> "uint64"]
T_big == [k |-> "big"]
T_bigptr == [k |-> "bigptr"]
T_bool == [k |-> "bool"]
T_string == [k |-> "string"]
T_array(n) == [k |-> "array", n |-> n]
T_slice(t) == [k |-> "slice", of |-> t]
T_struct(names, types) == [k |-> "struct", names |-> names, types |-> types]

\* the big-endian bytes of n >= 0 without leading zeros, and back
RECURSIVE BigEndian(_)
BigEndian(n) == IF n = 0 THEN <<>> ELSE Append(BigEndian(n \div 256), n % 256)

RECURSIVE FromBigEndian(_, _)
FromBigEndian(b, acc) ==
    IF b = <<>> THEN acc ELSE FromBigEndian(Tail(b), acc * 256 + Head(b))

\* the integers the model can hold: below 2^31
Holds(b) == Len(b) <= 3 \/ (Len(b) = 4 /\ b[1] < 128)

\* the eight bytes of 2^64 + x for -2^31 <= x < 0, and x from them
Pad4(b) == [i \in 1..(4 - Len(b)) |-> 0] \o b
WrappedBytes(x) ==
    <<255, 255, 255, 255>> \o [i \in 1..4 |-> 255 - Pad4(BigEndian(0 - (x + 1)))[i]]
IsWrapped(b) == Len(b) = 8 /\ (\A i \in 1..4 : b[i] = 255) /\ b[5] >= 128
FromWrapped(b) == 0 - FromBigEndian([i \in 1..4 |-> 255 - b[i + 4]], 0) - 1

HexDigit(n) ==
    <<"0", "1", "2", "3", "4", "5", "6", "7", "8", "9", "a", "b", "c", "d", "e", "f">>[n + 1]

\* the bytes of an address or hash held as hex digits, and back
HexBytes(v) == [i \in 1..(Len(v) \div 2) |-> 16 * HexVal(v[2 * i - 1]) + HexVal(v[2 * i])]
BytesHex(b) ==
    [i \in 1..(2 * Len(b)) |->
        IF i % 2 = 1 THEN HexDigit(b[(i + 1) \div 2] \div 16) ELSE HexDigit(b[i \div 2] % 16)]

\* the bytes of a string of digits and lower-case letters, and back
Letters ==
    <<"a", "b", "c", "d", "e", "f", "g", "h", "i", "j", "k", "l", "m",
      "n", "o", "p", "q", "r", "s", "t", "u", "v", "w", "x", "y", "z">>
CharCode(c) ==
    IF c \in DigitChars THEN 48 + DigitVal(c)
    ELSE 96 + (CHOOSE i \in 1..26 : Letters[i] = c)
IsCharCode(n) == n \in 48..57 \/ n \in 97..122
CodeChar(n) == IF n <= 57 THEN HexDigit(n - 48) ELSE Letters[n - 96]

\* the zero value of a type, which is what a decoder leaves in a field it
\* has not reached
RECURSIVE ZeroValue(_)
ZeroValue(t) ==
    CASE t.k = "uint" -> 0
      [] t.k = "uint64" -> Uint64(0)
      [] t.k = "big" -> 0
      [] t.k = "bigptr" -> NilReward
      [] t.k = "bool" -> FALSE
      [] t.k = "string" -> <<>>
      [] t.k = "array" -> [i \in 1..(2 * t.n) |-> "0"]
      [] t.k = "slice" -> <<>>
      [] t.k = "struct" ->
           [f \in {t.names[i] : i \in 1..Len(t.names)} |->
               ZeroValue(t.types[CHOOSE i \in 1..Len(t.names) : t.names[i] = f])]

\* encoding: the item of a value of type t. A negative *big.Int is an error
\* ("rlp: cannot encode negative *big.Int"); a nil *big.Int is written as
\* the empty string, like 0.
RECURSIVE rlpItem(_, _), rlpSliceItems(_, _), rlpFieldItems(_, _, _)
rlpItem(t, v) ==
    CASE t.k = "uint" -> [ok |-> TRUE, item |-> String(BigEndian(v))]
      [] t.k = "uint64" ->
           [ok |-> TRUE,
            item |-> String(IF v.wraps = 0 THEN BigEndian(v.val) ELSE WrappedBytes(v.val))]
      [] t.k = "big" ->
           IF v < 0 THEN [ok |-> FALSE, item |-> String(<<>>)]
           ELSE [ok |-> TRUE, item |-> String(BigEndian(v))]
      [] t.k = "bigptr" ->
           IF v.isNil THEN [ok |-> TRUE, item |-> String(<<>>)]
           ELSE IF v.val < 0 THEN [ok |-> FALSE, item |-> String(<<>>)]
           ELSE [ok |-> TRUE, item |-> String(BigEndian(v.val))]
      [] t.k = "bool" -> [ok |-> TRUE, item |-> String(IF v THEN <<1>> ELSE <<>>)]
      [] t.k = "string" ->
           [ok |-> TRUE, item |-> String([i \in 1..Len(v) |-> CharCode(v[i])])]
      [] t.k = "array" -> [ok |-> TRUE, item |-> String(HexBytes(v))]
      [] t.k = "slice" ->
           LET r == rlpSliceItems(t.of, v) IN [ok |-> r.ok, item |-> List(r.items)]
      [] t.k = "struct" ->
           LET r == rlpFieldItems(t, v, 1) IN [ok |-> r.ok, item |-> List(r.items)]

rlpSliceItems(t, l) ==
    IF l = <<>> THEN [ok |-> TRUE, items |-> <<>>]
    ELSE LET h == rlpItem(t, Head(l))
             r == rlpSliceItems(t, Tail(l))
         IN [ok |-> h.ok /\ r.ok, items |-> <<h.item>> \o r.items]

rlpFieldItems(t, v, i) ==
    IF i > Len(t.names) THEN [ok |-> TRUE, items |-> <<>>]
    ELSE LET h == rlpItem(t.types[i], v[t.names[i]])
             r == rlpFieldItems(t, v, i + 1)
         IN [ok |-> h.ok /\ r.ok, items |-> <<h.item>> \o r.items]

\* the bytes of an item: a single byte below 0x80 is itself; a string of up
\* to 55 bytes follows 0x80 + its length, a list 0xc0 + its length; longer
\* ones follow 0xb7 or 0xf7 plus the length of the length, and the length
RECURSIVE rlpBytes(_), rlpConcat(_)
Framed(short, long, payload) ==
    IF Len(payload) < 56 THEN <<short + Len(payload)>> \o payload
    ELSE <<long + Len(BigEndian(Len(payload)))>> \o BigEndian(Len(payload)) \o payload

rlpBytes(item) ==
    IF item.isList THEN Framed(192, 247, rlpConcat(item.items))
    ELSE IF Len(item.bytes) = 1 /\ item.bytes[1] < 128 THEN item.bytes
    ELSE Framed(128, 183, item.bytes)

rlpConcat(items) ==
    IF items = <<>> THEN <<>> ELSE rlpBytes(Head(items)) \o rlpConcat(Tail(items))

\* rlp.EncodeToBytes(val) for a val of type t
rlpEncodeToBytes(t, val) ==
    LET r == rlpItem(t, val)
    IN IF r.ok THEN [err |-> FALSE, b |-> rlpBytes(r.item)] ELSE [err |-> TRUE, b |-> <<>>]

\* decoding, first the items of the bytes. The size of an item must fit the
\* input left, a single byte below 0x80 must stand alone, and a long length
\* must have no leading zero and be 56 at least.
Failed == [ok |-> FALSE, item |-> String(<<>>), rest |-> <<>>]

RECURSIVE rlpParse(_), rlpParseAll(_)
Payload(b, lenlen, isList) ==
    LET n == IF lenlen = 0 THEN b[1] - (IF isList THEN 192 ELSE 128)
             ELSE FromBigEndian(SubSeq(b, 2, 1 + lenlen), 0)
        body == SubSeq(b, 2 + lenlen, 1 + lenlen + n)
        inner == rlpParseAll(body)
    IN IF lenlen > 2 \/ Len(b) < 1 + lenlen THEN Failed
       ELSE IF lenlen > 0 /\ (b[2] = 0 \/ n < 56) THEN Failed
       ELSE IF Len(b) < 1 + lenlen + n THEN Failed
       ELSE IF ~isList /\ n = 1 /\ body[1] < 128 THEN Failed
       ELSE IF isList /\ ~inner.ok THEN Failed
       ELSE [ok |-> TRUE,
             item |-> IF isList THEN List(inner.items) ELSE String(body),
             rest |-> SubSeq(b, 2 + lenlen + n, Len(b))]

rlpParse(b) ==
    IF b = <<>> THEN Failed
    ELSE IF b[1] < 128 THEN [ok |-> TRUE, item |-> String(<<b[1]>>), rest |-> Tail(b)]
    ELSE IF b[1] < 184 THEN Payload(b, 0, FALSE)
    ELSE IF b[1] < 192 THEN Payload(b, b[1] - 183, FALSE)
    ELSE IF b[1] < 248 THEN Payload(b, 0, TRUE)
    ELSE Payload(b, b[1] - 247, TRUE)

rlpParseAll(b) ==
    IF b = <<>> THEN [ok |-> TRUE, items |-> <<>>]
    ELSE LET h == rlpParse(b)
             r == rlpParseAll(h.rest)
         IN IF ~h.ok THEN [ok |-> FALSE, items |-> <<>>]
            ELSE [ok |-> r.ok, items |-> <<h.item>> \o r.items]

\* then the value of type t an item stands for. An integer has no leading
\* zero byte and a uint64 at most 8 bytes; a bool is 0 or 1; an array has
\* exactly its length; a struct has exactly its fields, and an error in one
\* of them leaves the fields before it decoded and the others zero.
RECURSIVE rlpValue(_, _), rlpSliceValues(_, _), rlpFieldValues(_, _, _, _)
Canonical(b) == b = <<>> \/ b[1] # 0

rlpValue(t, item) ==
    CASE t.k \in {"uint", "big"} ->
           IF item.isList \/ ~Canonical(item.bytes) \/ ~Holds(item.bytes)
              \/ (t.k = "uint" /\ Len(item.bytes) > 8)
           THEN [ok |-> FALSE, val |-> 0]
           ELSE [ok |-> TRUE, val |-> FromBigEndian(item.bytes, 0)]
      [] t.k = "uint64" ->
           IF item.isList \/ ~Canonical(item.bytes) \/ Len(item.bytes) > 8
           THEN [ok |-> FALSE, val |-> Uint64(0)]
           ELSE IF IsWrapped(item.bytes)
           THEN [ok |-> TRUE, val |-> Uint64(FromWrapped(item.bytes))]
           ELSE IF ~Holds(item.bytes) THEN [ok |-> FALSE, val |-> Uint64(0)]
           ELSE [ok |-> TRUE, val |-> Uint64(FromBigEndian(item.bytes, 0))]
      [] t.k = "bigptr" ->
           IF item.isList \/ ~Canonical(item.bytes) \/ ~Holds(item.bytes)
           THEN [ok |-> FALSE, val |-> NilReward]
           ELSE [ok |-> TRUE, val |-> SomeReward(FromBigEndian(item.bytes, 0))]
      [] t.k = "bool" ->
           IF item.isList \/ item.bytes \notin {<<>>, <<1>>} THEN [ok |-> FALSE, val |-> FALSE]
           ELSE [ok |-> TRUE, val |-> item.bytes = <<1>>]
      [] t.k = "string" ->
           IF item.isList \/ \E i \in 1..Len(item.bytes) : ~IsCharCode(item.bytes[i])
           THEN [ok |-> FALSE, val |-> <<>>]
           ELSE [ok |-> TRUE, val |-> [i \in 1..Len(item.bytes) |-> CodeChar(item.bytes[i])]]
      [] t.k = "array" ->
           IF item.isList \/ Len(item.bytes) # t.n THEN [ok |-> FALSE, val |-> ZeroValue(t)]
           ELSE [ok |-> TRUE, val |-> BytesHex(item.bytes)]
      [] t.k = "slice" ->
           IF ~item.isList THEN [ok |-> FALSE, val |-> <<>>]
           ELSE rlpSliceValues(t.of, item.items)
      [] t.k = "struct" ->
           IF ~item.isList THEN [ok |-> FALSE, val |-> ZeroValue(t)]
           ELSE rlpFieldValues(t, item.items, 1, ZeroValue(t))

rlpSliceValues(t, items) ==
    IF items = <<>> THEN [ok |-> TRUE, val |-> <<>>]
    ELSE LET h == rlpValue(t, Head(items))
             r == rlpSliceValues(t, Tail(items))
         IN IF ~h.ok THEN [ok |-> FALSE, val |-> <<>>]
            ELSE [ok |-> r.ok, val |-> <<h.val>> \o r.val]

rlpFieldValues(t, items, i, acc) ==
    IF i > Len(t.names) THEN [ok |-> items = <<>>, val |-> acc]
    ELSE IF items = <<>> THEN [ok |-> FALSE, val |-> acc]
    ELSE LET h == rlpValue(t.types[i], Head(items))
         IN IF ~h.ok THEN [ok |-> FALSE, val |-> acc]
            ELSE rlpFieldValues(t, Tail(items), i + 1,
                                [acc EXCEPT ![t.names[i]] = h.val])

\* rlp.DecodeBytes(b, val) for a val of type t that holds its zero value: one
\* item and nothing after it
rlpDecodeBytes(t, b) ==
    LET p == rlpParse(b)
        r == rlpValue(t, p.item)
    IN IF ~p.ok \/ p.rest # <<>> THEN [ok |-> FALSE, val |-> ZeroValue(t)] ELSE r

\* ------------------------------------------------- the encoded accumulator

T_address == T_array(AddressLength)
T_hash == T_array(HashLength)

VoteType == T_struct(<<"Voter", "Candidate", "Stake">>, <<T_address, T_address, T_big>>)

ConfirmationType == T_struct(<<"Signer", "BlockNumber">>, <<T_address, T_big>>)

DeclareType ==
    T_struct(<<"ProposalHash", "Declarer", "Decision">>, <<T_hash, T_address, T_bool>>)

ProposalType ==
    T_struct(<<"Hash", "ReceivedNumber", "CurrentDeposit", "ValidationLoopCnt",
               "ProposalType", "Proposer", "TargetAddress", "MinerRewardPerThousand",
               "SCHash", "SCBlockCountPerPeriod", "SCBlockRewardPerPeriod", "Declares",
               "MinVoterBalance", "ProposalDeposit", "SCRentFee", "SCRentRate",
               "SCRentLength">>,
             <<T_hash, T_big, T_big, T_uint,
               T_uint64, T_address, T_address, T_uint,
               T_hash, T_uint64, T_uint64, T_slice(DeclareType),
               T_uint, T_uint, T_uint, T_uint,
               T_uint>>)

SCConfirmationType ==
    T_struct(<<"Hash", "Coinbase", "Number", "LoopInfo">>,
             <<T_hash, T_address, T_uint, T_slice(T_string)>>)

SCSetCoinbaseType ==
    T_struct(<<"Hash", "Signer", "Coinbase">>, <<T_hash, T_address, T_address>>)

GasChargingType == T_struct(<<"Target", "Volume", "Hash">>, <<T_address, T_uint, T_hash>>)

HeaderExtraType ==
    T_struct(<<"CurrentBlockConfirmations", "CurrentBlockVotes", "CurrentBlockProposals",
               "CurrentBlockDeclares", "ModifyPredecessorVotes", "LoopStartTime",
               "SignerQueue", "CandidateSigners", "SignerAdmin", "PerBlockReward",
               "MinerRewardRatio", "SignerMissing", "ConfirmedBlockNumber",
               "SideChainConfirmations", "SideChainSetCoinbases",
               "SideChainNoticeConfirmed", "SideChainCharging">>,
             <<T_slice(ConfirmationType), T_slice(VoteType), T_slice(ProposalType),
               T_slice(DeclareType), T_slice(VoteType), T_uint,
               T_slice(T_address), T_slice(T_address), T_address, T_bigptr,
               T_uint, T_slice(T_address), T_uint,
               T_slice(SCConfirmationType), T_slice(SCSetCoinbaseType),
               T_slice(SCConfirmationType), T_slice(GasChargingType)>>)

\* the accumulator a block starts from: no record yet, the signer set and
\* the scalars as the previous blocks left them
NewHeaderExtra(signers, admin) ==
    [ CurrentBlockConfirmations |-> <<>>,
      CurrentBlockVotes |-> <<>>,
      CurrentBlockProposals |-> <<>>,
      CurrentBlockDeclares |-> <<>>,
      ModifyPredecessorVotes |-> <<>>,
      LoopStartTime |-> 0,
      SignerQueue |-> signers,
      CandidateSigners |-> signers,
      SignerAdmin |-> admin,
      PerBlockReward |-> 5,
      MinerRewardRatio |-> 4,
      SignerMissing |-> <<>>,
      ConfirmedBlockNumber |-> 0,
      SideChainConfirmations |-> <<>>,
      SideChainSetCoinbases |-> <<>>,
      SideChainNoticeConfirmed |-> <<>>,
      SideChainCharging |-> <<>> ]

\* the accumulator as the Go struct holds it: PerBlockReward is a pointer,
\* which the accumulators of the other sections never leave nil
GoValue(extra) == [extra EXCEPT !.PerBlockReward = SomeReward(@)]

\* lines 261-272: the switch has the default case only
encodeHeaderExtra(blockNumber, val) == rlpEncodeToBytes(HeaderExtraType, val)

\* lines 275-284, decoding into a HeaderExtra that holds its zero value
decodeHeaderExtra(blockNumber, b) ==
    LET r == rlpDecodeBytes(HeaderExtraType, b) IN [err |-> ~r.ok, val |-> r.val]

\* the headers of the chain
NilHeader == [isNil |-> TRUE, Extra |-> <<>>]
Header(extra) == [isNil |-> FALSE, Extra |-> extra]

Vanity == [i \in 1..extraVanity |-> 118]
Seal == [i \in 1..extraSeal |-> 115]

\* a header sealed with the signer queue q
SealedHeader(q) ==
    Header(Vanity \o encodeHeaderExtra(0, GoValue(NewHeaderExtra(q, ZeroAddr))).b \o Seal)

\* the extra-data of an earlier format, which ends with SignerMissing
EarlierFormat(q) ==
    rlpBytes(List(SubSeq(rlpItem(HeaderExtraType,
                                 GoValue(NewHeaderExtra(q, ZeroAddr))).item.items, 1, 12)))

\* chain.GetHeaderByNumber(n)
GetHeaderByNumber(chain, n) == IF n \in DOMAIN chain THEN chain[n] ELSE NilHeader

Confirmation(signer, blockNumber) == [Signer |-> signer, BlockNumber |-> blockNumber]
RefundPair(sender, gasPrice) == [Sender |-> sender, GasPrice |-> gasPrice]

\* refundHash[h] = pair, on a map kept as the set of its entries
MapPut(refunds, h, pair) ==
    {e \in refunds : e.hash # h} \cup {[hash |-> h, pair |-> pair]}

\* processEventConfirm appending without looking into the signer queue
processEventConfirm_anySigner(confirmations, chain, txDataInfo, blockNumber, tx, confirmer, refunds) ==
    LET same == [list |-> confirmations, refundHash |-> refunds]
        c == BigUnmarshalText(txDataInfo[posEventConfirmNumber + 1])
        age == Uint64(blockNumber - BigUint64(c.val))
        confirmedHeader == GetHeaderByNumber(chain, BigUint64(c.val))
        d == decodeHeaderExtra(c.val,
                 SubSeq(confirmedHeader.Extra, extraVanity + 1,
                        Len(confirmedHeader.Extra) - extraSeal))
    IN IF Len(txDataInfo) <= posEventConfirmNumber THEN same
       ELSE IF ~c.ok \/ Uint64Greater(age, MaxSignerCount) THEN same
       ELSE IF confirmedHeader.isNil THEN same
       ELSE IF extraVanity + extraSeal > Len(confirmedHeader.Extra) THEN same
       ELSE IF d.err THEN same
       ELSE [ list |-> Append(confirmations, Confirmation(confirmer, c.val)),
              refundHash |-> MapPut(refunds, tx.hash, RefundPair(confirmer, tx.gasPrice)) ]

\* processEventConfirm going on after a decoding error with what was decoded
processEventConfirm_decodeErrIgnored(confirmations, chain, txDataInfo, blockNumber, tx, confirmer, refunds) ==
    LET same == [list |-> confirmations, refundHash |-> refunds]
        c == BigUnmarshalText(txDataInfo[posEventConfirmNumber + 1])
        age == Uint64(blockNumber - BigUint64(c.val))
        confirmedHeader == GetHeaderByNumber(chain, BigUint64(c.val))
        d == decodeHeaderExtra(c.val,
                 SubSeq(confirmedHeader.Extra, extraVanity + 1,
                        Len(confirmedHeader.Extra) - extraSeal))
    IN IF Len(txDataInfo) <= posEventConfirmNumber THEN same
       ELSE IF ~c.ok \/ Uint64Greater(age, MaxSignerCount) THEN same
       ELSE IF confirmedHeader.isNil THEN same
       ELSE IF extraVanity + extraSeal > Len(confirmedHeader.Extra) THEN same
       ELSE IF \E i \in 1..Len(d.val.SignerQueue) : d.val.SignerQueue[i] = confirmer
       THEN [ list |-> Append(confirmations, Confirmation(confirmer, c.val)),
              refundHash |-> MapPut(refunds, tx.hash, RefundPair(confirmer, tx.gasPrice)) ]
       ELSE same

\* processEventConfirm: the confirmation list and the refund map it returns.
\* number - confirmedBlockNumber.Uint64() is a uint64, so that its comparison
\* with 0 at line 655 is never true.
processEventConfirm(confirmations, chain, txDataInfo, blockNumber, tx, confirmer, refunds) ==
    LET same == [list |-> confirmations, refundHash |-> refunds]
        c == BigUnmarshalText(txDataInfo[posEventConfirmNumber + 1])
        age == Uint64(blockNumber - BigUint64(c.val))
        confirmedHeader == GetHeaderByNumber(chain, BigUint64(c.val))
        d == decodeHeaderExtra(c.val,
                 SubSeq(confirmedHeader.Extra, extraVanity + 1,
                        Len(confirmedHeader.Extra) - extraSeal))
    IN IF Len(txDataInfo) <= posEventConfirmNumber THEN same
       ELSE IF ~c.ok \/ Uint64Greater(age, MaxSignerCount) THEN same
       ELSE IF confirmedHeader.isNil THEN same
       ELSE IF extraVanity + extraSeal > Len(confirmedHeader.Extra) THEN same
       ELSE IF d.err THEN same
       ELSE IF \E i \in 1..Len(d.val.SignerQueue) : d.val.SignerQueue[i] = confirmer
       THEN [ list |-> Append(confirmations, Confirmation(confirmer, c.val)),
              refundHash |-> MapPut(refunds, tx.hash, RefundPair(confirmer, tx.gasPrice)) ]
       ELSE same

\* --------------------------------------------------- processCustomTx

\* the admin guard without the test of the recipient
IsAdminTx_anyRecipient(extra, tx) == tx.sender = extra.SignerAdmin

\* the admin guard with the sender check dropped
IsAdminTx_anySender(extra, tx) == tx.to # NoTo

\* the admin guard reading the SignerAdmin of the accumulator as it was given
IsAdminTx_stale(extra, tx) == tx.sender = admin0 /\ tx.to # NoTo

\* txSender.Str() == headerExtra.SignerAdmin.Str() && tx.To() != nil
IsAdminTx(extra, tx) == tx.sender = extra.SignerAdmin /\ tx.to # NoTo

\* the grammar guard with the version token not compared
IsDposCommand_anyVersion(txData, txDataInfo) ==
    /\ Len(txData) >= Len(dposPrefix)
    /\ Len(txDataInfo) >= dposMinSplitLen
    /\ txDataInfo[posPrefix + 1] = dposPrefix

\* the four nested guards of lines 320-325
IsDposCommand(txData, txDataInfo) ==
    /\ Len(txData) >= Len(dposPrefix)
    /\ Len(txDataInfo) >= dposMinSplitLen
    /\ txDataInfo[posPrefix + 1] = dposPrefix
    /\ txDataInfo[posVersion + 1] = dposVersion

\* modadmin taking the miner ratio back to 0 with the change of admin
ModifyAdmin_resetsRatio(extra, to) ==
    IF extra.SignerAdmin # to
    THEN [extra EXCEPT !.SignerAdmin = to, !.MinerRewardRatio = 0]
    ELSE extra

\* modadmin with the assignment lost
ModifyAdmin_keep(extra, to) == extra

\* lines 333-338: modadmin sets SignerAdmin unless it is the same already
ModifyAdmin(extra, to) ==
    IF extra.SignerAdmin # to THEN [extra EXCEPT !.SignerAdmin = to] ELSE extra

\* the admin branch, lines 328-352, for a command of category admin
AdminCommand(extra, tx, txDataInfo) ==
    LET ev == txDataInfo[posAdminEvent + 1]
    IN IF ~IsAdminTx(extra, tx) THEN extra
       ELSE IF ev = dposAdminAddSigner \/ ev = dposAdminDelSigner
       THEN [extra EXCEPT !.CandidateSigners = processAdminSigner(@, ev, tx.to)]
       ELSE IF ev = dposAdminModifyAdmin
       THEN ModifyAdmin(extra, tx.to)
       ELSE IF ev = dposAdminModifyMinerReward
       THEN LET newPerBlockReward == processAdminPerBlockReward(txDataInfo)
            IN IF ~newPerBlockReward.isNil
               THEN [extra EXCEPT !.PerBlockReward = newPerBlockReward.val] ELSE extra
       ELSE IF ev = dposAdminModifyMinerRatio
       THEN LET newMinerRatio == processAdminMinerRatio(txDataInfo)
            IN IF newMinerRatio >= 0
               THEN [extra EXCEPT !.MinerRewardRatio = newMinerRatio] ELSE extra
       ELSE extra

\* the command part of the loop body, lines 320-357: only the admin category
\* is dispatched
CustomCommand(extra, tx) ==
    LET txDataInfo == Split(tx.data)
    IN IF IsDposCommand(tx.data, txDataInfo)
          /\ txDataInfo[posCategory + 1] = dposCategoryAdmin
       THEN AdminCommand(extra, tx, txDataInfo)
       ELSE extra

\* the loop body with the error of types.Sender not looked at
FoldTx_senderErrorIgnored(extra, tx) ==
    LET e1 == CustomCommand(extra, tx)
    IN IF number > 1
       THEN [e1 EXCEPT !.ModifyPredecessorVotes =
                processPredecessorVoter(@, balance, tx, tx.sender,
                                        Snapshot(voters, SideChains))]
       ELSE e1

\* the loop body with processPredecessorVoter called only for a transaction
\* that is not a dpos:1 command
FoldTx_commandsSkipped(extra, tx) ==
    IF ~tx.senderOk THEN extra
    ELSE LET e1 == CustomCommand(extra, tx)
         IN IF number > 1 /\ ~IsDposCommand(tx.data, Split(tx.data))
            THEN [e1 EXCEPT !.ModifyPredecessorVotes =
                     processPredecessorVoter(@, balance, tx, tx.sender,
                                             Snapshot(voters, SideChains))]
            ELSE e1

\* the loop body, lines 315-362, for one transaction
FoldTx(extra, tx) ==
    IF ~tx.senderOk THEN extra
    ELSE LET e1 == CustomCommand(extra, tx)
         IN IF number > 1
            THEN [e1 EXCEPT !.ModifyPredecessorVotes =
                     processPredecessorVoter(@, balance, tx, tx.sender,
                                             Snapshot(voters, SideChains))]
            ELSE e1

\* ------------------------------------------------------- transactions

\* the payload whose tokens are toks: they are joined with colons
RECURSIVE Join(_)
Join(toks) ==
    IF Len(toks) = 1 THEN toks[1] ELSE toks[1] \o <<":">> \o Join(Tail(toks))

AdminCmd(ev) == <<dposPrefix, dposVersion, dposCategoryAdmin, ev>>
EventCmd(ev) == <<dposPrefix, dposVersion, dposCategoryEvent, ev>>

\* the admin commands that read the recipient, and one unknown event
TargetPayloads ==
    {Join(AdminCmd(ev)) : ev \in {dposAdminAddSigner, dposAdminDelSigner,
        dposAdminModifyAdmin, <<"b", "o", "g", "u", "s">>}}

\* modreward and modratio: with no value token, and with each value token
ValueTokens == {<<"7">>, <<"0">>, <<"-", "3">>, <<"x">>, <<>>}

ValuePayloads ==
    {Join(AdminCmd(ev)) : ev \in {dposAdminModifyMinerReward, dposAdminModifyMinerRatio}}
    \cup {Join(Append(AdminCmd(ev), v)) :
            ev \in {dposAdminModifyMinerReward, dposAdminModifyMinerRatio},
            v \in ValueTokens}

\* one well-formed command of each event
EventPayloads ==
    { Join(EventCmd(dposEventVote)),
      Join(Append(EventCmd(dposEventConfirm), <<"1">>)),
      Join(EventCmd(dposEventPorposal) \o <<<<"m", "r", "p", "t">>, <<"5">>>>),
      Join(EventCmd(dposEventDeclare)
           \o <<<<"d", "e", "c", "i", "s", "i", "o", "n">>, <<"n", "o">>>>) }

\* payloads the grammar guards turn away: too short, three tokens, a wrong
\* prefix, a wrong version
MalformedPayloads ==
    { <<>>,
      Join(<<dposPrefix, dposVersion, dposCategoryAdmin>>),
      Join(<<<<"d", "p", "o", "x">>, dposVersion, dposCategoryAdmin, dposAdminModifyAdmin>>),
      Join(<<dposPrefix, <<"2">>, dposCategoryAdmin, dposAdminModifyMinerReward, <<"7">>>>) }

\* the payloads tried with a positive value and with an unrecoverable sender
FewPayloads ==
    { <<>>, Join(AdminCmd(dposAdminModifyAdmin)),
      Join(Append(AdminCmd(dposAdminModifyMinerReward), <<"7">>)) }

Tx(s, ok, t, v, d) ==
    [op |-> "tx", sender |-> s, senderOk |-> ok, to |-> t, value |-> v, data |-> d]

\* the transactions of a block: the commands without value, a few payloads
\* with a value, and transactions whose sender types.Sender cannot recover
TxSet ==
    {Tx(s, TRUE, t, 0, d) : s \in Addrs, t \in Addrs \cup {NoTo}, d \in TargetPayloads}
    \cup {Tx(s, TRUE, t, 0, d) : s \in {A1, A2}, t \in {A2, NoTo}, d \in ValuePayloads}
    \cup {Tx(s, TRUE, t, 0, d) : s \in {A1, A2}, t \in {A2, NoTo}, d \in EventPayloads}
    \cup {Tx(s, TRUE, A3, 0, d) : s \in {A1, A2}, d \in MalformedPayloads}
    \cup {Tx(s, TRUE, t, 1, d) : s \in {A1, A2}, t \in {A1, A3, NoTo}, d \in FewPayloads}
    \cup {Tx(ZeroAddr, FALSE, A2, v, d) : v \in {0, 1}, d \in FewPayloads}

NoTx == [op |-> "none"]

\* ------------------------------------------------------- the accumulator

\* the lists of at most MaxSignerCount distinct addresses, one at least:
\* processAdminSigner adds no address twice and none beyond MaxSignerCount
SignerLists ==
    {l \in UNION {[1..n -> Addrs] : n \in 1..MaxSignerCount} :
        \A i, j \in 1..Len(l) : i # j => l[i] # l[j]}

InitBalance == [a \in Addrs |-> CASE a = A1 -> 1500 [] a = A2 -> 500 [] OTHER -> 100]

Init ==
    /\ balance = InitBalance
    /\ \/ /\ \E signers \in SignerLists : headerExtra = NewHeaderExtra(signers, A1)
          /\ number = 1 /\ voters = {} /\ snapOk = TRUE
       \/ /\ headerExtra = NewHeaderExtra(<<A1>>, ZeroAddr)
          /\ number = 2 /\ voters = {A2, A3} /\ snapOk = TRUE
       \/ /\ number = 2 /\ voters \in {{A1}, {A2, A3}} /\ snapOk \in BOOLEAN
          /\ \E signers \in (IF snapOk THEN {<<A1>>} ELSE SignerLists) :
                headerExtra = NewHeaderExtra(signers, A1)
    /\ pc = "start"
    /\ err = "nil"
    /\ refundGas = <<>>
    /\ idx = 0
    /\ refundHash = {}
    /\ wire = <<>>
    /\ lastTx = NoTx
    /\ prev = [extra |-> headerExtra, balance |-> balance, refundHash |-> refundHash]
    /\ admin0 = headerExtra.SignerAdmin

\* the start with the error of the snapshot dropped
Begin_errorDropped ==
    /\ pc = "start"
    /\ pc' = "loop" /\ err' = "nil" /\ refundGas' = <<>>
    /\ UNCHANGED <<headerExtra, balance, voters, number, snapOk, idx, lastTx, prev, admin0, refundHash, wire>>

\* lines 304-312: the refund ledger is made, then the snapshot of the parent
\* block is read when number > 1; its error is returned with a nil ledger
Begin ==
    /\ pc = "start"
    /\ IF number > 1 /\ ~snapOk
       THEN pc' = "done" /\ err' = "snapshot" /\ refundGas' = "nil"
       ELSE pc' = "loop" /\ err' = "nil" /\ refundGas' = <<>>
    /\ UNCHANGED <<headerExtra, balance, voters, number, snapOk, idx, lastTx, prev, admin0, refundHash, wire>>

\* the iteration that returns an error for a payload that is no dpos:1
\* command of the admin category
ProcessTx_garbageRefused ==
    /\ pc = "loop"
    /\ idx < MaxTxs
    /\ \E tx \in TxSet :
         /\ lastTx' = tx
         /\ headerExtra' = FoldTx(headerExtra, tx)
         /\ IF tx.senderOk /\ ~IsDposCommand(tx.data, Split(tx.data))
            THEN pc' = "done" /\ err' = "command"
            ELSE pc' = pc /\ err' = err
    /\ prev' = [extra |-> headerExtra, balance |-> balance, refundHash |-> refundHash]
    /\ idx' = idx + 1
    /\ UNCHANGED <<balance, voters, number, snapOk, refundGas, admin0, refundHash, wire>>

\* one iteration of for _, tx := range txs
ProcessTx ==
    /\ pc = "loop"
    /\ idx < MaxTxs
    /\ \E tx \in TxSet :
         /\ lastTx' = tx
         /\ headerExtra' = FoldTx(headerExtra, tx)
    /\ prev' = [extra |-> headerExtra, balance |-> balance, refundHash |-> refundHash]
    /\ idx' = idx + 1
    /\ UNCHANGED <<balance, voters, number, snapOk, pc, err, refundGas, admin0, refundHash, wire>>

\* line 365: the end of the list, return headerExtra, refundGas, nil
Finish ==
    /\ pc = "loop"
    /\ pc' = "done"
    /\ err' = "nil"
    /\ UNCHANGED <<headerExtra, balance, voters, number, snapOk, refundGas, idx, lastTx, prev, admin0, refundHash, wire>>

Next == Begin \/ ProcessTx \/ Finish

Spec == Init /\ [][Next]_vars

\* ------------------------------------------- the functions called alone

\* A second specification calls the event functions one after another on one
\* accumulator and one world state, as a caller holding both would.

\* The loop of line 314 ranges over a finite list and no step of its body
\* waits: a call that has started goes on until it returns. The calls
\* followed to their end are those at a block number above 1 whose snapshot
\* can be read.
InitLive ==
    Init /\ number > 1 /\ snapOk /\ voters = {A2, A3} /\ headerExtra.SignerAdmin = A1

SpecLive == InitLive /\ [][Next]_vars /\ WF_vars(Next)

\* the hash of the n-th transaction
TxHash(n) ==
    CASE n = 1 -> <<"0", "0", "0", "1">> [] n = 2 -> <<"0", "0", "0", "2">>
      [] n = 3 -> <<"0", "0", "0", "3">> [] OTHER -> <<"0", "0", "0", "4">>

UnitTx(op, s, t, d, h) ==
    [op |-> op, sender |-> s, senderOk |-> TRUE, to |-> t, value |-> 0, data |-> d,
     hash |-> h]

VoteTxs(h) ==
    {UnitTx("vote", s, t, Join(EventCmd(dposEventVote)), h) :
        s \in Addrs, t \in Addrs \cup {NoTo}}

ProposalCmd(pairs) == Join(EventCmd(dposEventPorposal) \o pairs)

\* a rent-side-chain proposal for the registered chain, target a3, fee 100
RentPairs ==
    << K_proposal_type, <<"8">>, K_schash, <<"0", "x">> \o SC1,
       K_scrt, <<"0", "x">> \o A3, K_scrf, <<"1", "0", "0">> >>

ProposalPayloads ==
    { ProposalCmd(<<K_proposal_type, <<"1">>>>),
      ProposalCmd(<<K_mrpt, <<"5">>>>),
      ProposalCmd(<<K_mrpt, <<"1", "5", "0", "0">>>>),
      ProposalCmd(RentPairs),
      Join(EventCmd(dposEventPorposal)) }

ProposalTxs(h) ==
    {UnitTx("proposal", s, s, d, h) : s \in Addrs, d \in ProposalPayloads}

InitUnit ==
    /\ headerExtra = NewHeaderExtra(<<A1>>, A1)
    /\ balance = InitBalance
    /\ number = 2
    /\ voters = {A1}
    /\ snapOk = TRUE
    /\ pc = "unit"
    /\ err = "nil"
    /\ refundGas = <<>>
    /\ idx = 0
    /\ refundHash = {}
    /\ wire = <<>>
    /\ lastTx = NoTx
    /\ prev = [extra |-> headerExtra, balance |-> balance, refundHash |-> refundHash]
    /\ admin0 = headerExtra.SignerAdmin

\* list = processEventVote(list, state, tx, sender); a transaction without
\* recipient ends the run in the nil dereference of *tx.To()
CallVote ==
    /\ pc = "unit"
    /\ idx < MaxTxs
    /\ \E tx \in VoteTxs(TxHash(idx + 1)) :
         /\ lastTx' = tx
         /\ IF tx.to = NoTo
            THEN pc' = "panic" /\ headerExtra' = headerExtra
            ELSE /\ pc' = pc
                 /\ headerExtra' = [headerExtra EXCEPT !.CurrentBlockVotes =
                                       processEventVote(@, balance, tx, tx.sender)]
    /\ prev' = [extra |-> headerExtra, balance |-> balance, refundHash |-> refundHash]
    /\ idx' = idx + 1
    /\ UNCHANGED <<balance, voters, number, snapOk, err, refundGas, admin0, refundHash, wire>>

\* list = processEventProposal(list, txDataInfo, state, tx, sender, snap)
CallProposal ==
    /\ pc = "unit"
    /\ idx < MaxTxs
    /\ \E tx \in ProposalTxs(TxHash(idx + 1)) :
         LET r == processEventProposal(headerExtra.CurrentBlockProposals, Split(tx.data),
                                       balance, tx, tx.sender, Snapshot(voters, SideChains))
         IN /\ lastTx' = tx
            /\ headerExtra' = [headerExtra EXCEPT !.CurrentBlockProposals = r.proposals]
            /\ balance' = r.state
    /\ prev' = [extra |-> headerExtra, balance |-> balance, refundHash |-> refundHash]
    /\ idx' = idx + 1
    /\ UNCHANGED <<voters, number, snapOk, pc, err, refundGas, admin0, refundHash, wire>>

NextUnit == CallVote \/ CallProposal

SpecUnit == InitUnit /\ [][NextUnit]_vars

\* ------------------------------------------------ one confirm command

\* A third specification calls processEventConfirm once, on a chain that
\* holds the headers below the current block number.

\* header 0 is the genesis header, whose extra-data lists the first signers
\* and is no encoded HeaderExtra; the extra-data of header 1 is of the earlier
\* format, with the signer queue a1; that of header 3 is shorter than vanity
\* and seal
HeaderAt(n) ==
    CASE n = 0 -> Header(Vanity \o HexBytes(A1) \o HexBytes(A2) \o Seal)
      [] n = 1 -> Header(Vanity \o EarlierFormat(<<A1>>) \o Seal)
      [] n = 2 -> SealedHeader(<<A1, A2>>)
      [] n = 3 -> Header(<<118, 115>>)
      [] n = 4 -> SealedHeader(<<A2, A3>>)
      [] n = 5 -> SealedHeader(<<A1>>)
      [] OTHER -> SealedHeader(<<A3>>)

ChainBefore(n) == [i \in 0..(n - 1) |-> HeaderAt(i)]

ConfirmNumbers == 3..7

ConfirmTokens ==
    { <<"0">>, <<"1">>, <<"2">>, <<"3">>, <<"4">>, <<"5">>, <<"6">>, <<"7">>,
      <<"-", "2">>, <<"0", "x", "2">>, <<"0", "2">>, <<"x">>, <<>> }

ConfirmPayloads ==
    {Join(EventCmd(dposEventConfirm))}
    \cup {Join(Append(EventCmd(dposEventConfirm), t)) : t \in ConfirmTokens}
    \cup {Join(EventCmd(dposEventConfirm) \o <<<<"2">>, <<"x">>>>)}

ConfirmTx(s, d, h, g) ==
    [op |-> "confirm", sender |-> s, senderOk |-> TRUE, to |-> s, value |-> 0,
     data |-> d, hash |-> h, gasPrice |-> g]

ConfirmTxs(h) == {ConfirmTx(s, d, h, g) : s \in Addrs, d \in ConfirmPayloads, g \in {1, 2}}

\* the list and the map the call is given: empty, or holding one earlier
\* confirmation and its refund entry
EarlierConfirmations ==
    { [confirmations |-> <<>>, refundHash |-> {}],
      [confirmations |-> <<Confirmation(A2, 1)>>,
       refundHash |-> {[hash |-> TxHash(4), pair |-> RefundPair(A2, 1)]}] }

InitConfirm ==
    /\ \E e \in EarlierConfirmations :
         /\ headerExtra = [NewHeaderExtra(<<A1>>, A1) EXCEPT
                              !.CurrentBlockConfirmations = e.confirmations]
         /\ refundHash = e.refundHash
    /\ wire = <<>>
    /\ balance = InitBalance
    /\ number \in ConfirmNumbers
    /\ voters = {A1}
    /\ snapOk = TRUE
    /\ pc = "call"
    /\ err = "nil"
    /\ refundGas = <<>>
    /\ idx = 0
    /\ lastTx = NoTx
    /\ prev = [extra |-> headerExtra, balance |-> balance, refundHash |-> refundHash]
    /\ admin0 = headerExtra.SignerAdmin

\* list, refundHash = processEventConfirm(list, chain, txDataInfo, number,
\* tx, sender, refundHash)
CallConfirm ==
    /\ pc = "call"
    /\ \E tx \in ConfirmTxs(TxHash(1)) :
         LET r == processEventConfirm(headerExtra.CurrentBlockConfirmations,
                                      ChainBefore(number), Split(tx.data), number, tx,
                                      tx.sender, refundHash)
         IN /\ lastTx' = tx
            /\ headerExtra' = [headerExtra EXCEPT !.CurrentBlockConfirmations = r.list]
            /\ refundHash' = r.refundHash
    /\ prev' = [extra |-> headerExtra, balance |-> balance, refundHash |-> refundHash]
    /\ pc' = "returned"
    /\ idx' = idx + 1
    /\ UNCHANGED <<balance, voters, number, snapOk, err, refundGas, admin0, wire>>

NextConfirm == CallConfirm

SpecConfirm == InitConfirm /\ [][NextConfirm]_vars

\* The same call while the chain reader knows headers above the current
\* block: the block belongs to a branch shorter than the canonical chain,
\* whose headers GetHeaderByNumber returns by number.
KnownHeight == 8

AheadNumbers == 3..5

InitAhead ==
    /\ \E e \in EarlierConfirmations :
         /\ headerExtra = [NewHeaderExtra(<<A1>>, A1) EXCEPT
                              !.CurrentBlockConfirmations = e.confirmations]
         /\ refundHash = e.refundHash
    /\ wire = <<>>
    /\ balance = InitBalance
    /\ number \in AheadNumbers
    /\ voters = {A1}
    /\ snapOk = TRUE
    /\ pc = "call"
    /\ err = "nil"
    /\ refundGas = <<>>
    /\ idx = 0
    /\ lastTx = NoTx
    /\ prev = [extra |-> headerExtra, balance |-> balance, refundHash |-> refundHash]
    /\ admin0 = headerExtra.SignerAdmin

CallAhead ==
    /\ pc = "call"
    /\ \E tx \in ConfirmTxs(TxHash(1)) :
         LET r == processEventConfirm(headerExtra.CurrentBlockConfirmations,
                                      ChainBefore(KnownHeight), Split(tx.data), number, tx,
                                      tx.sender, refundHash)
         IN /\ lastTx' = tx
            /\ headerExtra' = [headerExtra EXCEPT !.CurrentBlockConfirmations = r.list]
            /\ refundHash' = r.refundHash
    /\ prev' = [extra |-> headerExtra, balance |-> balance, refundHash |-> refundHash]
    /\ pc' = "returned"
    /\ idx' = idx + 1
    /\ UNCHANGED <<balance, voters, number, snapOk, err, refundGas, admin0, wire>>

NextAhead == CallAhead

SpecAhead == InitAhead /\ [][NextAhead]_vars

\* ------------------------------------- one proposal or declare command

\* A fourth specification calls processEventProposal or processEventDeclare
\* once, on a list that is empty or holds an earlier record.

\* key/value pairs a validator of lines 441-517 turns away
FailingPairs ==
    { <<K_vlcnt, <<"3">>>>, <<K_vlcnt, <<"5", "0", "0", "0", "1">>>>,
      <<K_vlcnt, <<"x">>>>, <<K_mrpt, <<"0">>>>,
      <<K_mrpt, <<"1", "0", "0", "1">>>>, <<K_mrpt, <<"1", "5", "0", "0">>>>,
      <<K_mrpt, <<"x">>>>, <<K_mvb, <<"0">>>>, <<K_mvb, <<"-", "1">>>>,
      <<K_mvb, <<"x">>>>, <<K_mpd, <<"0">>>>,
      <<K_mpd, <<"1", "0", "0", "0", "0", "1">>>>,
      <<K_mpd, <<"1", ".", "5">>>>, <<K_scrf, <<"9", "9">>>>,
      <<K_scrf, <<"x">>>>, <<K_scrr, <<"0">>>>, <<K_scrr, <<"x">>>>,
      <<K_scrl, <<"8", "4", "9", "9", "9", "9">>>>,
      <<K_scrl, <<"1", "0", "2", "0", "0", "0", "0", "1">>>>,
      <<K_scrl, <<"x">>>>, <<K_sccount, <<"x">>>>, <<K_screward, <<>>>>,
      <<K_proposal_type, <<"x">>>>,
      <<K_sccount, <<"9", "9", "9", "9", "9", "9", "9", "9", "9", "9", "9", "9", "9", "9", "9", "9", "9", "9", "9", "9">>>> }

\* pairs the validators let through, the ends of the ranges among them
PassingPairs ==
    { <<K_vlcnt, <<"4">>>>, <<K_vlcnt, <<"5", "0", "0", "0", "0">>>>,
      <<K_mrpt, <<"1">>>>, <<K_mrpt, <<"1", "0", "0", "0">>>>,
      <<K_mvb, <<"1">>>>, <<K_mpd, <<"1">>>>,
      <<K_mpd, <<"1", "0", "0", "0", "0", "0">>>>,
      <<K_scrf, <<"1", "0", "0">>>>, <<K_scrr, <<"1">>>>,
      <<K_scrl, <<"8", "5", "0", "0", "0", "0">>>>,
      <<K_scrl, <<"1", "0", "2", "0", "0", "0", "0", "0">>>>,
      <<K_sccount, <<"-", "1">>>>, <<K_sccount, <<"7">>>>,
      <<K_screward, <<"0">>>>, <<K_proposal_type, <<"-", "1">>>>,
      <<K_proposal_type, <<"9">>>>, <<K_proposal_type, <<"+", "2">>>>,
      <<K_proposal_type, <<"0">>>> }

\* address and hash pairs that do not decode, and pairs that do
BadHexPairs ==
    { <<K_candidate, <<"x", "y", "z">>>>, <<K_candidate, <<"0", "x", "a">>>>,
      <<K_candidate, <<"a", "2">>>>,
      <<K_candidate, <<"0", "x", "a", "2", "a", "2">>>>,
      <<K_candidate, <<>>>>, <<K_scrt, <<"z", "z">>>>,
      <<K_schash, <<"0", "x", "5", "c">>>>,
      <<K_schash, <<"5", "c", "0", "1">>>> }

GoodHexPairs ==
    { <<K_candidate, <<"0", "x", "a", "2">>>>,
      <<K_candidate, <<"0", "X", "A", "2">>>>,
      <<K_schash, <<"0", "x", "5", "c", "0", "1">>>>,
      <<K_scrt, <<"0", "x", "a", "3">>>> }

Pair_type1 == <<K_proposal_type, <<"1">>>>
Pair_type8 == <<K_proposal_type, <<"8">>>>
Pair_mrpt5 == <<K_mrpt, <<"5">>>>
Pair_unknown == <<<<"f", "o", "o">>, <<"b", "a", "r">>>>
Pair_sc1 == <<K_schash, <<"0", "x">> \o SC1>>
Pair_scrtA3 == <<K_scrt, <<"0", "x">> \o A3>>
Pair_scrf100 == <<K_scrf, <<"1", "0", "0">>>>
Pair_scrf150 == <<K_scrf, <<"1", "5", "0">>>>

\* each pair alone, after a valid pair and before one
Surrounded(ps) ==
    {ProposalCmd(q) : q \in ps}
    \cup {ProposalCmd(Pair_type1 \o q) : q \in ps}
    \cup {ProposalCmd(q \o Pair_mrpt5) : q \in ps}

\* rent-side-chain commands: complete ones, and those with the chain hash or
\* the target missing, unregistered, zero or not decoding
RentPayloads ==
    { ProposalCmd(Pair_type8 \o Pair_sc1 \o Pair_scrtA3 \o Pair_scrf100),
      ProposalCmd(Pair_type8 \o Pair_sc1 \o Pair_scrtA3 \o Pair_scrf150),
      ProposalCmd(Pair_type8 \o Pair_sc1 \o Pair_scrtA3),
      ProposalCmd(Pair_sc1 \o Pair_scrtA3 \o Pair_scrf100 \o Pair_type8),
      ProposalCmd(Pair_type8 \o Pair_sc1 \o <<K_candidate, <<"0", "x">> \o A3>> \o Pair_scrf100),
      ProposalCmd(Pair_type8 \o <<K_schash, <<"0", "x", "5", "c", "0", "2">>>>
                  \o Pair_scrtA3 \o Pair_scrf100),
      ProposalCmd(Pair_type8 \o Pair_scrtA3 \o Pair_scrf100),
      ProposalCmd(Pair_type8 \o Pair_sc1 \o Pair_scrf100),
      ProposalCmd(Pair_type8 \o Pair_sc1 \o <<K_scrt, <<"0", "x", "0", "0">>>> \o Pair_scrf100),
      ProposalCmd(Pair_type8 \o Pair_sc1 \o <<K_scrt, <<"z", "z">>>> \o Pair_scrf100),
      ProposalCmd(Pair_type8 \o <<K_schash, <<"5", "c", "0", "1">>>>
                  \o Pair_scrtA3 \o Pair_scrf100),
      ProposalCmd(Pair_type1 \o Pair_sc1 \o Pair_scrtA3 \o Pair_scrf150),
      ProposalCmd(Pair_type8) }

\* commands with a key the switch does not know, and with a last token that
\* has no value
UnknownPayloads ==
    { ProposalCmd(Pair_unknown \o Pair_mrpt5),
      ProposalCmd(Pair_mrpt5 \o Pair_unknown),
      ProposalCmd(Pair_type1 \o Pair_unknown \o Pair_mrpt5),
      ProposalCmd(Pair_unknown \o Pair_type8 \o Pair_sc1 \o Pair_unknown
                  \o Pair_scrtA3 \o Pair_scrf100),
      ProposalCmd(Pair_unknown \o <<K_mrpt, <<"1", "5", "0", "0">>>>),
      ProposalCmd(Pair_unknown),
      ProposalCmd(Pair_mrpt5 \o <<<<"f", "o", "o">>>>),
      ProposalCmd(<<K_mrpt>>),
      ProposalCmd(Pair_mrpt5 \o <<K_vlcnt>>) }

OneProposalPayloads ==
    ProposalPayloads \cup Surrounded(FailingPairs) \cup Surrounded(PassingPairs)
    \cup Surrounded(BadHexPairs) \cup Surrounded(GoodHexPairs)
    \cup {ProposalCmd(<<K_candidate, <<"0", "x">> \o A2>> \o q) : q \in BadHexPairs}
    \cup RentPayloads \cup UnknownPayloads

OneProposalTxs(h) ==
    {UnitTx("proposal", s, s, d, h) : s \in {A1, A2}, d \in OneProposalPayloads}

DeclareCmd(pairs) == Join(EventCmd(dposEventDeclare) \o pairs)

Pair_hash4 == <<K_hash, <<"0", "x">> \o TxHash(4)>>
Pair_yes == <<K_decision, K_yes>>
Pair_no == <<K_decision, K_no>>

OneDeclarePayloads ==
    { DeclareCmd(Pair_hash4 \o Pair_yes), DeclareCmd(Pair_hash4 \o Pair_no),
      DeclareCmd(Pair_no \o Pair_hash4), DeclareCmd(Pair_hash4), DeclareCmd(Pair_no),
      DeclareCmd(Pair_hash4 \o <<K_decision, <<"m", "a", "y", "b", "e">>>>),
      DeclareCmd(<<K_decision, <<>>>> \o Pair_hash4),
      DeclareCmd(<<K_hash, <<"z", "z">>>> \o Pair_yes),
      DeclareCmd(<<K_hash, <<"0", "0", "0", "4">>>> \o Pair_no),
      DeclareCmd(Pair_hash4 \o <<K_hash, <<"0", "x", "0", "4">>>> \o Pair_no),
      DeclareCmd(Pair_unknown \o Pair_hash4 \o Pair_no),
      DeclareCmd(Pair_hash4 \o Pair_unknown \o Pair_no),
      DeclareCmd(Pair_hash4 \o Pair_no \o Pair_unknown),
      DeclareCmd(Pair_unknown \o Pair_hash4 \o <<K_decision, <<"m", "a", "y", "b", "e">>>>),
      DeclareCmd(Pair_unknown),
      DeclareCmd(Pair_no \o <<<<"f", "o", "o">>>>),
      DeclareCmd(Pair_yes \o Pair_no), DeclareCmd(Pair_no \o Pair_yes),
      DeclareCmd(Pair_no \o <<K_decision, <<"m", "a", "y", "b", "e">>>>),
      DeclareCmd(<<K_decision, <<"Y", "e", "s">>>>),
      DeclareCmd(Pair_hash4 \o <<K_decision>>),
      DeclareCmd(<<K_hash>>),
      Join(EventCmd(dposEventDeclare)) }

OneDeclareTxs(h) ==
    {UnitTx("declare", s, s, d, h) : s \in {A1, A2}, d \in OneDeclarePayloads}

\* the balances the proposer a1 is tried with: around the deposit and around
\* the cost of a rent of fee 100
OneBalances ==
    { 0, proposalDeposit - 1, proposalDeposit, 50 * Ether,
      proposalDeposit + minSCRentFee * Ether - 1, proposalDeposit + minSCRentFee * Ether,
      200 * Ether }

\* the lists the call is given: empty, or holding one earlier record
EarlierRecords ==
    { [proposals |-> <<>>, declares |-> <<>>],
      [proposals |-> <<DefaultProposal([hash |-> TxHash(4)], A2)>>,
       declares |-> <<Declare(TxHash(4), A3, TRUE)>>] }

InitOne ==
    /\ \E e \in EarlierRecords :
         headerExtra = [NewHeaderExtra(<<A1>>, A1) EXCEPT
                           !.CurrentBlockProposals = e.proposals,
                           !.CurrentBlockDeclares = e.declares]
    /\ \E b \in OneBalances : balance = [InitBalance EXCEPT ![A1] = b]
    /\ number = 2
    /\ voters = {A1}
    /\ snapOk = TRUE
    /\ pc = "call"
    /\ err = "nil"
    /\ refundGas = <<>>
    /\ idx = 0
    /\ refundHash = {}
    /\ wire = <<>>
    /\ lastTx = NoTx
    /\ prev = [extra |-> headerExtra, balance |-> balance, refundHash |-> refundHash]
    /\ admin0 = headerExtra.SignerAdmin

\* list = processEventProposal(list, txDataInfo, state, tx, sender, snap)
OneProposal ==
    /\ pc = "call"
    /\ \E tx \in OneProposalTxs(TxHash(1)) :
         LET r == processEventProposal(headerExtra.CurrentBlockProposals, Split(tx.data),
                                       balance, tx, tx.sender, Snapshot(voters, SideChains))
         IN /\ lastTx' = tx
            /\ headerExtra' = [headerExtra EXCEPT !.CurrentBlockProposals = r.proposals]
            /\ balance' = r.state
    /\ prev' = [extra |-> headerExtra, balance |-> balance, refundHash |-> refundHash]
    /\ pc' = "returned"
    /\ idx' = idx + 1
    /\ UNCHANGED <<voters, number, snapOk, err, refundGas, admin0, refundHash, wire>>

\* list = processEventDeclare(list, txDataInfo, tx, sender)
OneDeclare ==
    /\ pc = "call"
    /\ \E tx \in OneDeclareTxs(TxHash(1)) :
         /\ lastTx' = tx
         /\ headerExtra' = [headerExtra EXCEPT !.CurrentBlockDeclares =
                               processEventDeclare(@, Split(tx.data), tx, tx.sender)]
    /\ prev' = [extra |-> headerExtra, balance |-> balance, refundHash |-> refundHash]
    /\ pc' = "returned"
    /\ idx' = idx + 1
    /\ UNCHANGED <<balance, voters, number, snapOk, err, refundGas, admin0, refundHash, wire>>

NextOne == OneProposal \/ OneDeclare

SpecOne == InitOne /\ [][NextOne]_vars

\* ------------------------------------------------- reading a folded block

\* ------------------------------------------------- encoding and decoding

\* A further specification encodes an accumulator and decodes the bytes.
\* The accumulator is held as the Go struct holds it, with PerBlockReward a
\* pointer: unset, 0, 5, or the -3 that modreward:-3 leaves.

CodecVotes ==
    { <<>>, <<Vote(A1, A2, 1500)>>, <<Vote(A1, A2, 1500), Vote(A2, ZeroAddr, 0)>> }

CodecConfirmations == { <<>>, <<Confirmation(A2, 3)>> }

CodecProposals ==
    { <<>>,
      <<DefaultProposal([hash |-> TxHash(1)], A1)>>,
      <<[DefaultProposal([hash |-> TxHash(2)], A2) EXCEPT
            !.ProposalType = Uint64(proposalTypeRentSideChain), !.SCHash = SC1,
            !.TargetAddress = A3, !.SCRentFee = 150,
            !.SCBlockCountPerPeriod = Uint64(0 - 1)]>> }

CodecDeclares == { <<>>, <<Declare(TxHash(1), A3, FALSE), Declare(TxHash(4), A1, TRUE)>> }

CodecRewards == { NilReward, SomeReward(0), SomeReward(5), SomeReward(0 - 3) }

\* the side-chain lists: all empty, or one record in each
CodecSideChain(extra, full) ==
    IF ~full THEN extra
    ELSE [extra EXCEPT
            !.SideChainConfirmations =
                <<[Hash |-> SC1, Coinbase |-> A1, Number |-> 7,
                   LoopInfo |-> << <<"a", "1">>, <<>>, <<"7">> >>]>>,
            !.SideChainSetCoinbases = <<[Hash |-> SC1, Signer |-> A1, Coinbase |-> A2]>>,
            !.SideChainNoticeConfirmed =
                <<[Hash |-> SC1, Coinbase |-> A2, Number |-> 300, LoopInfo |-> <<>>]>>,
            !.SideChainCharging = <<[Target |-> A3, Volume |-> 2, Hash |-> TxHash(1)]>>,
            !.LoopStartTime = 1000000, !.ConfirmedBlockNumber = 128,
            !.SignerMissing = <<A2>>]

InitCodec ==
    /\ \E v \in CodecVotes, c \in CodecConfirmations, p \in CodecProposals,
          d \in CodecDeclares, r \in CodecRewards, full \in BOOLEAN :
         headerExtra =
            CodecSideChain([GoValue(NewHeaderExtra(<<A1, A2>>, A1)) EXCEPT
                               !.CurrentBlockVotes = v,
                               !.ModifyPredecessorVotes = v,
                               !.CurrentBlockConfirmations = c,
                               !.CurrentBlockProposals = p,
                               !.CurrentBlockDeclares = d,
                               !.PerBlockReward = r], full)
    /\ balance = InitBalance
    /\ number = 2
    /\ voters = {A1}
    /\ snapOk = TRUE
    /\ pc = "call"
    /\ err = "nil"
    /\ refundGas = <<>>
    /\ idx = 0
    /\ refundHash = {}
    /\ wire = <<>>
    /\ lastTx = NoTx
    /\ prev = [extra |-> headerExtra, balance |-> balance, refundHash |-> refundHash]
    /\ admin0 = headerExtra.SignerAdmin

\* bytes, err = encodeHeaderExtra(config, number, headerExtra)
Encode ==
    /\ pc = "call"
    /\ LET r == encodeHeaderExtra(number, headerExtra)
       IN /\ wire' = r.b
          /\ err' = IF r.err THEN "encode" ELSE "nil"
          /\ pc' = IF r.err THEN "returned" ELSE "encoded"
    /\ UNCHANGED <<headerExtra, balance, voters, number, snapOk, refundGas, idx, lastTx, prev, admin0, refundHash>>

\* err = decodeHeaderExtra(config, number, bytes, &val) on a new val
Decode ==
    /\ pc = "encoded"
    /\ LET d == decodeHeaderExtra(number, wire)
       IN /\ headerExtra' = d.val
          /\ err' = IF d.err THEN "decode" ELSE "nil"
    /\ pc' = "decoded"
    /\ UNCHANGED <<balance, voters, number, snapOk, refundGas, idx, lastTx, prev, admin0, refundHash, wire>>

NextCodec == Encode \/ Decode

SpecCodec == InitCodec /\ [][NextCodec]_vars

\* ------------------------------------------------- the side-chain records

\* strings.Split(s, sep) for a separator of one character
RECURSIVE stringsSplit(_, _, _, _)
stringsSplit(s, sep, cur, acc) ==
    IF s = <<>> THEN Append(acc, cur)
    ELSE IF Head(s) = sep THEN stringsSplit(Tail(s), sep, <<>>, Append(acc, cur))
    ELSE stringsSplit(Tail(s), sep, Append(cur, Head(s)), acc)

SCConfirmation(hash, coinbase, blockNumber, loopInfo) ==
    [Hash |-> hash, Coinbase |-> coinbase, Number |-> blockNumber, LoopInfo |-> loopInfo]

SCSetCoinbase(hash, signer, coinbase) ==
    [Hash |-> hash, Signer |-> signer, Coinbase |-> coinbase]

processSCEventNoticeConfirm(scEventNoticeConfirm, hash, blockNumber, chargingInfo, txSender) ==
    IF chargingInfo # <<>>
    THEN Append(scEventNoticeConfirm,
                SCConfirmation(hash, txSender, blockNumber,
                               stringsSplit(chargingInfo, "#", <<>>, <<>>)))
    ELSE scEventNoticeConfirm

processSCEventConfirm(scEventConfirmaions, hash, blockNumber, loopInfo, tx, txSender, refunds) ==
    [ list |-> Append(scEventConfirmaions,
                      SCConfirmation(hash, txSender, blockNumber,
                                     stringsSplit(loopInfo, "#", <<>>, <<>>))),
      refundHash |-> MapPut(refunds, tx.hash, RefundPair(txSender, tx.gasPrice)) ]

\* processSCEventSetCoinbase putting the new record in front
processSCEventSetCoinbase_newestFirst(scEventSetCoinbases, hash, signer, coinbase) ==
    <<SCSetCoinbase(hash, signer, coinbase)>> \o scEventSetCoinbases

processSCEventSetCoinbase(scEventSetCoinbases, hash, signer, coinbase) ==
    Append(scEventSetCoinbases, SCSetCoinbase(hash, signer, coinbase))

\* A further specification calls each of the eight functions that return a
\* record list once, on lists that are empty or hold one earlier record.

EarlierLists ==
    { NewHeaderExtra(<<A1>>, A1),
      [NewHeaderExtra(<<A1>>, A1) EXCEPT
          !.CurrentBlockVotes = <<Vote(A3, A1, 100)>>,
          !.ModifyPredecessorVotes = <<Vote(A3, ZeroAddr, 100)>>,
          !.CurrentBlockConfirmations = <<Confirmation(A2, 1)>>,
          !.CurrentBlockProposals = <<DefaultProposal([hash |-> TxHash(4)], A2)>>,
          !.CurrentBlockDeclares = <<Declare(TxHash(4), A3, TRUE)>>,
          !.SideChainConfirmations = <<SCConfirmation(SC1, A3, 6, <<<<"a">>>>)>>,
          !.SideChainNoticeConfirmed = <<SCConfirmation(SC1, A3, 5, <<<<"b">>>>)>>,
          !.SideChainSetCoinbases = <<SCSetCoinbase(SC1, A3, A1)>>] }

LoopInfos == { <<>>, <<"7">>, <<"a", "#", "b">>, <<"#">> }

TransferTxs ==
    {[Tx(s, TRUE, t, v, <<>>) EXCEPT !.op = "predecessor"] :
        s \in Addrs, t \in Addrs \cup {NoTo}, v \in {0, 1}}

SCTxs(op, h) ==
    {[ConfirmTx(s, d, h, g) EXCEPT !.op = op] :
        s \in {A1, A2}, d \in LoopInfos, g \in {1, 2}}

InitLists ==
    /\ headerExtra \in EarlierLists
    /\ balance = InitBalance
    /\ number = 4
    /\ voters = {A1, A2}
    /\ snapOk = TRUE
    /\ pc = "call"
    /\ err = "nil"
    /\ refundGas = <<>>
    /\ idx = 0
    /\ refundHash = {}
    /\ wire = <<>>
    /\ lastTx = NoTx
    /\ prev = [extra |-> headerExtra, balance |-> balance, refundHash |-> refundHash]
    /\ admin0 = headerExtra.SignerAdmin

\* what every call of this specification leaves behind
Called(tx) ==
    /\ lastTx' = tx
    /\ prev' = [extra |-> headerExtra, balance |-> balance, refundHash |-> refundHash]
    /\ idx' = idx + 1
    /\ UNCHANGED <<voters, number, snapOk, err, refundGas, admin0, wire>>

ListVote ==
    /\ pc = "call"
    /\ \E tx \in VoteTxs(TxHash(1)) :
         /\ Called(tx)
         /\ IF tx.to = NoTo
            THEN pc' = "panic" /\ headerExtra' = headerExtra
            ELSE /\ pc' = "returned"
                 /\ headerExtra' = [headerExtra EXCEPT !.CurrentBlockVotes =
                                       processEventVote(@, balance, tx, tx.sender)]
    /\ UNCHANGED <<balance, refundHash>>

ListConfirm ==
    /\ pc = "call"
    /\ \E tx \in ConfirmTxs(TxHash(1)) :
         LET r == processEventConfirm(headerExtra.CurrentBlockConfirmations,
                                      ChainBefore(number), Split(tx.data), number, tx,
                                      tx.sender, refundHash)
         IN /\ Called(tx)
            /\ headerExtra' = [headerExtra EXCEPT !.CurrentBlockConfirmations = r.list]
            /\ refundHash' = r.refundHash
    /\ pc' = "returned"
    /\ UNCHANGED balance

ListProposal ==
    /\ pc = "call"
    /\ \E tx \in OneProposalTxs(TxHash(1)) :
         LET r == processEventProposal(headerExtra.CurrentBlockProposals, Split(tx.data),
                                       balance, tx, tx.sender, Snapshot(voters, SideChains))
         IN /\ Called(tx)
            /\ headerExtra' = [headerExtra EXCEPT !.CurrentBlockProposals = r.proposals]
            /\ balance' = r.state
    /\ pc' = "returned"
    /\ UNCHANGED refundHash

ListDeclare ==
    /\ pc = "call"
    /\ \E tx \in OneDeclareTxs(TxHash(1)) :
         /\ Called(tx)
         /\ headerExtra' = [headerExtra EXCEPT !.CurrentBlockDeclares =
                               processEventDeclare(@, Split(tx.data), tx, tx.sender)]
    /\ pc' = "returned"
    /\ UNCHANGED <<balance, refundHash>>

ListPredecessor ==
    /\ pc = "call"
    /\ \E tx \in TransferTxs :
         /\ Called(tx)
         /\ headerExtra' = [headerExtra EXCEPT !.ModifyPredecessorVotes =
                               processPredecessorVoter(@, balance, tx, tx.sender,
                                                       Snapshot(voters, SideChains))]
    /\ pc' = "returned"
    /\ UNCHANGED <<balance, refundHash>>

ListSCConfirm ==
    /\ pc = "call"
    /\ \E tx \in SCTxs("scconfirm", TxHash(1)) :
         LET r == processSCEventConfirm(headerExtra.SideChainConfirmations, SC1, number,
                                        tx.data, tx, tx.sender, refundHash)
         IN /\ Called(tx)
            /\ headerExtra' = [headerExtra EXCEPT !.SideChainConfirmations = r.list]
            /\ refundHash' = r.refundHash
    /\ pc' = "returned"
    /\ UNCHANGED balance

ListSCNoticeConfirm ==
    /\ pc = "call"
    /\ \E tx \in SCTxs("scnotice", TxHash(1)) :
         /\ Called(tx)
         /\ headerExtra' = [headerExtra EXCEPT !.SideChainNoticeConfirmed =
                               processSCEventNoticeConfirm(@, SC1, number, tx.data,
                                                           tx.sender)]
    /\ pc' = "returned"
    /\ UNCHANGED <<balance, refundHash>>

ListSCSetCoinbase ==
    /\ pc = "call"
    /\ \E tx \in SCTxs("sccoinbase", TxHash(1)), coinbase \in {A2, A3} :
         /\ Called(tx)
         /\ headerExtra' = [headerExtra EXCEPT !.SideChainSetCoinbases =
                               processSCEventSetCoinbase(@, SC1, tx.sender, coinbase)]
    /\ pc' = "returned"
    /\ UNCHANGED <<balance, refundHash>>

\* the admin commands of the model, with and without value and recipient
AdminTxs ==
    {[Tx(s, TRUE, t, v, d) EXCEPT !.op = "admin"] :
        s \in {A1, A2}, t \in {A2, NoTo}, v \in {0, 1},
        d \in TargetPayloads \cup ValuePayloads}

\* the command part of the loop body of processCustomTx, on its own
ListAdmin ==
    /\ pc = "call"
    /\ \E tx \in AdminTxs :
         /\ Called(tx)
         /\ headerExtra' = CustomCommand(headerExtra, tx)
    /\ pc' = "applied"
    /\ UNCHANGED <<balance, refundHash>>

NextLists ==
    \/ ListVote \/ ListConfirm \/ ListProposal \/ ListDeclare \/ ListPredecessor
    \/ ListSCConfirm \/ ListSCNoticeConfirm \/ ListSCSetCoinbase \/ ListAdmin

SpecLists == InitLists /\ [][NextLists]_vars

\* a transaction was folded by processCustomTx and its sender was recovered
Folded == lastTx.op = "tx" /\ lastTx.senderOk

\* lastTx carries exactly this payload
Carries(toks) == Folded /\ lastTx.data = Join(toks)

\* the accumulator as it was before lastTx
Before == prev.extra

SentByAdmin == Folded /\ lastTx.sender = Before.SignerAdmin /\ lastTx.to # NoTo

ModReward(v) == Append(AdminCmd(dposAdminModifyMinerReward), v)
ModRatio(v) == Append(AdminCmd(dposAdminModifyMinerRatio), v)

SameAdminFields(e1, e2) ==
    /\ e1.CandidateSigners = e2.CandidateSigners
    /\ e1.SignerAdmin = e2.SignerAdmin
    /\ e1.PerBlockReward = e2.PerBlockReward
    /\ e1.MinerRewardRatio = e2.MinerRewardRatio

SameRecordLists(e1, e2) ==
    /\ e1.CurrentBlockVotes = e2.CurrentBlockVotes
    /\ e1.CurrentBlockConfirmations = e2.CurrentBlockConfirmations
    /\ e1.CurrentBlockProposals = e2.CurrentBlockProposals
    /\ e1.CurrentBlockDeclares = e2.CurrentBlockDeclares

InList(l, a) == \E i \in 1..Len(l) : l[i] = a

\* ------------------------------------------------------------- claims

\* C1: a transaction whose sender is not the SignerAdmin of the accumulator
\* being built leaves CandidateSigners, SignerAdmin, PerBlockReward and
\* MinerRewardRatio as they were, whatever its payload.
C1_NonAdminChangesNothing ==
    (lastTx.op = "tx" /\ lastTx.sender # Before.SignerAdmin)
        => SameAdminFields(headerExtra, Before)

\* C1 witness: a well-formed modreward:7 from a sender who is not the admin,
\* on an accumulator whose reward is not 7.
C1_Witness ==
    /\ Carries(ModReward(<<"7">>))
    /\ lastTx.to # NoTo
    /\ lastTx.sender # Before.SignerAdmin
    /\ Before.PerBlockReward # 7

\* C2: the admin check reads the SignerAdmin of the accumulator as the earlier
\* transactions of the block left it: a command with a visible effect
\* (modreward:7, modratio:7, modadmin, adds of a new signer on a list with
\* room) takes effect when its sender is that SignerAdmin and has none when
\* it is not, also when the sender is the admin the block started with.
C2_AdminCheckFollowsBlockOrder ==
    /\ (Carries(ModReward(<<"7">>)) /\ lastTx.to # NoTo) =>
          headerExtra.PerBlockReward =
             IF lastTx.sender = Before.SignerAdmin THEN 7 ELSE Before.PerBlockReward
    /\ (Carries(ModRatio(<<"7">>)) /\ lastTx.to # NoTo) =>
          headerExtra.MinerRewardRatio =
             IF lastTx.sender = Before.SignerAdmin THEN 7 ELSE Before.MinerRewardRatio
    /\ (Carries(AdminCmd(dposAdminModifyAdmin)) /\ lastTx.to # NoTo) =>
          headerExtra.SignerAdmin =
             IF lastTx.sender = Before.SignerAdmin THEN lastTx.to ELSE Before.SignerAdmin
    /\ (/\ Carries(AdminCmd(dposAdminAddSigner)) /\ lastTx.to # NoTo
        /\ ~InList(Before.CandidateSigners, lastTx.to)
        /\ Len(Before.CandidateSigners) < MaxSignerCount) =>
          headerExtra.CandidateSigners =
             IF lastTx.sender = Before.SignerAdmin
             THEN Append(Before.CandidateSigners, lastTx.to)
             ELSE Before.CandidateSigners

\* C2 witness: the admin was changed earlier in the block, and a modreward:7
\* of the new admin has set the reward.
C2_Witness ==
    /\ Carries(ModReward(<<"7">>))
    /\ lastTx.to # NoTo
    /\ Before.SignerAdmin # admin0
    /\ lastTx.sender = Before.SignerAdmin
    /\ Before.PerBlockReward # 7
    /\ headerExtra.PerBlockReward = 7

C4_AddSigner ==
    (Carries(AdminCmd(dposAdminAddSigner)) /\ SentByAdmin) =>
        headerExtra.CandidateSigners =
           IF /\ ~InList(Before.CandidateSigners, lastTx.to)
              /\ Len(Before.CandidateSigners) < MaxSignerCount
           THEN Append(Before.CandidateSigners, lastTx.to)
           ELSE Before.CandidateSigners

\* C4 witness: from [a1], adds a2 by admin a1 has given [a1, a2].
C4_Witness ==
    /\ Carries(AdminCmd(dposAdminAddSigner)) /\ SentByAdmin
    /\ Before.CandidateSigners = <<A1>> /\ lastTx.sender = A1 /\ lastTx.to = A2
    /\ headerExtra.CandidateSigners = <<A1, A2>>

\* C4, the two refusals: Y already present, and a full list with Y outside.
C4_WitnessPresent ==
    /\ Carries(AdminCmd(dposAdminAddSigner)) /\ SentByAdmin
    /\ InList(Before.CandidateSigners, lastTx.to)
    /\ Len(Before.CandidateSigners) < MaxSignerCount

C4_WitnessFull ==
    /\ Carries(AdminCmd(dposAdminAddSigner)) /\ SentByAdmin
    /\ ~InList(Before.CandidateSigners, lastTx.to)
    /\ Len(Before.CandidateSigners) = MaxSignerCount

C5_WitnessTwice ==
    /\ Carries(AdminCmd(dposAdminModifyAdmin))
    /\ idx = 2 /\ admin0 # lastTx.to /\ lastTx.sender = admin0
    /\ Before.SignerAdmin = lastTx.to

\* C6: modreward by the admin sets PerBlockReward to the base-10 integer of
\* its fifth token (7, 0, -3) and keeps the reward when the token is absent,
\* empty or not a number; no error is returned.
C6_ModifyReward ==
    /\ (Carries(ModReward(<<"7">>)) /\ SentByAdmin) => headerExtra.PerBlockReward = 7
    /\ (Carries(ModReward(<<"0">>)) /\ SentByAdmin) => headerExtra.PerBlockReward = 0
    /\ (Carries(ModReward(<<"-", "3">>)) /\ SentByAdmin) => headerExtra.PerBlockReward = -3
    /\ (/\ \/ Carries(ModReward(<<"x">>))
           \/ Carries(ModReward(<<>>))
           \/ Carries(AdminCmd(dposAdminModifyMinerReward))
        /\ SentByAdmin) => headerExtra.PerBlockReward = Before.PerBlockReward
    /\ (Folded /\ lastTx.data \in ValuePayloads /\ pc = "done") => err = "nil"

\* C6 witness: the admin's modreward:7 has replaced another reward.
C6_Witness ==
    /\ Carries(ModReward(<<"7">>)) /\ SentByAdmin
    /\ Before.PerBlockReward # 7
    /\ pc = "done"

\* C6, the refusal: the admin's modreward:x.
C6_WitnessRefused == Carries(ModReward(<<"x">>)) /\ SentByAdmin

\* C7: modratio by the admin sets MinerRewardRatio to the integer of its
\* fifth token when it is 0 or more (7, 0) and keeps the ratio when the token
\* is absent, empty, not a number or negative; no error is returned.
C7_ModifyRatio ==
    /\ (Carries(ModRatio(<<"7">>)) /\ SentByAdmin) => headerExtra.MinerRewardRatio = 7
    /\ (Carries(ModRatio(<<"0">>)) /\ SentByAdmin) => headerExtra.MinerRewardRatio = 0
    /\ (/\ \/ Carries(ModRatio(<<"-", "3">>))
           \/ Carries(ModRatio(<<"x">>))
           \/ Carries(ModRatio(<<>>))
           \/ Carries(AdminCmd(dposAdminModifyMinerRatio))
        /\ SentByAdmin) => headerExtra.MinerRewardRatio = Before.MinerRewardRatio
    /\ (Folded /\ lastTx.data \in ValuePayloads /\ pc = "done") => err = "nil"

\* C7 witness: the admin's modratio:0 has replaced a ratio that was not 0.
C7_Witness ==
    /\ Carries(ModRatio(<<"0">>)) /\ SentByAdmin
    /\ Before.MinerRewardRatio # 0
    /\ headerExtra.MinerRewardRatio = 0

\* C7, the refusal: the admin's modratio:-3.
C7_WitnessRefused == Carries(ModRatio(<<"-", "3">>)) /\ SentByAdmin

\* the payload of lastTx has fewer than 4 tokens, or its token 0 is not
\* "dpos", or its token 1 is not "1"
NotACommand ==
    LET toks == Split(lastTx.data)
    IN \/ Len(toks) < 4
       \/ toks[1] # <<"d", "p", "o", "s">>
       \/ toks[2] # <<"1">>

\* C8: a transaction that is not a dpos:1 command of at least 4 tokens changes
\* no governance field, no record list and no balance, and no error is
\* returned for it.
C8_MalformedIgnored ==
    (Folded /\ NotACommand) =>
        /\ SameAdminFields(headerExtra, Before)
        /\ SameRecordLists(headerExtra, Before)
        /\ balance = prev.balance
        /\ err = "nil"

\* C8 witness: the admin has sent dpos:2:admin:modreward:7, a wrong version.
C8_Witness ==
    /\ Carries(<<dposPrefix, <<"2">>, dposCategoryAdmin, dposAdminModifyMinerReward, <<"7">>>>)
    /\ SentByAdmin
    /\ Before.PerBlockReward # 7
    /\ pc = "done"

\* C8, the other shapes: three tokens, and a wrong prefix.
C8_WitnessShort ==
    Carries(<<dposPrefix, dposVersion, dposCategoryAdmin>>) /\ SentByAdmin

C8_WitnessPrefix ==
    /\ Carries(<<<<"d", "p", "o", "x">>, dposVersion, dposCategoryAdmin, dposAdminModifyAdmin>>)
    /\ SentByAdmin /\ lastTx.to # Before.SignerAdmin

\* C9 as stated: a well-formed event command folded by processCustomTx leaves
\* its record in the accumulator: vote (with a recipient) a Vote of the sender
\* for the recipient, declare with decision:no a Declare of the sender,
\* proposal with mrpt:5 from a1, who can pay the deposit, a Proposal of the
\* sender. (A confirm command is not dispatched either; whether one is valid
\* depends on the header it names.)
C9_EventRecorded ==
    /\ (Carries(EventCmd(dposEventVote)) /\ lastTx.to # NoTo) =>
          \E i \in 1..Len(headerExtra.CurrentBlockVotes) :
             /\ headerExtra.CurrentBlockVotes[i].Voter = lastTx.sender
             /\ headerExtra.CurrentBlockVotes[i].Candidate = lastTx.to
    /\ Carries(EventCmd(dposEventDeclare)
               \o <<<<"d", "e", "c", "i", "s", "i", "o", "n">>, <<"n", "o">>>>) =>
          \E i \in 1..Len(headerExtra.CurrentBlockDeclares) :
             headerExtra.CurrentBlockDeclares[i].Declarer = lastTx.sender
    /\ (/\ Carries(EventCmd(dposEventPorposal) \o <<<<"m", "r", "p", "t">>, <<"5">>>>)
        /\ lastTx.sender = A1) =>
          \E i \in 1..Len(headerExtra.CurrentBlockProposals) :
             headerExtra.CurrentBlockProposals[i].Proposer = lastTx.sender

\* C10: processEventVote appends exactly one Vote, of the sender for the
\* recipient, whose stake is the sender's balance in the world state at the
\* call, so the balance left by the proposals accepted before it.
C10_VoteAppended ==
    (lastTx.op = "vote" /\ lastTx.to # NoTo) =>
        headerExtra.CurrentBlockVotes =
            Append(Before.CurrentBlockVotes,
                   [Voter |-> lastTx.sender, Candidate |-> lastTx.to,
                    Stake |-> prev.balance[lastTx.sender]])

\* C10 witness: a vote made after an accepted proposal of the same sender
\* carries a stake below the balance the sender started with.
C10_Witness ==
    /\ lastTx.op = "vote" /\ lastTx.to # NoTo
    /\ Len(Before.CurrentBlockProposals) = 1
    /\ Before.CurrentBlockProposals[1].Proposer = lastTx.sender
    /\ Len(headerExtra.CurrentBlockVotes) = 1
    /\ headerExtra.CurrentBlockVotes[1].Stake = InitBalance[lastTx.sender] - proposalDeposit

\* ------------------------------------------- reading a confirm call

ConfirmCalled == lastTx.op = "confirm"

HasNumberToken == Len(Split(lastTx.data)) > 4

\* the block number the command names, as written
Confirmed == BigUnmarshalText(Split(lastTx.data)[5])

\* the number the chain reader is asked for
Looked == BigUint64(Confirmed.val)

ConfirmUnchanged ==
    /\ headerExtra.CurrentBlockConfirmations = Before.CurrentBlockConfirmations
    /\ refundHash = prev.refundHash

ConfirmAppended ==
    /\ headerExtra.CurrentBlockConfirmations =
          Append(Before.CurrentBlockConfirmations,
                 [Signer |-> lastTx.sender, BlockNumber |-> Confirmed.val])
    /\ refundHash =
          prev.refundHash \cup
             {[hash |-> lastTx.hash,
               pair |-> [Sender |-> lastTx.sender, GasPrice |-> lastTx.gasPrice]]}

Queues == UNION {[1..n -> Addrs] : n \in 1..2}

\* h is a header sealed with a signer queue that holds a / does not hold a
SealedWith(h, a) == \E q \in Queues : h = SealedHeader(q) /\ InList(q, a)
SealedWithout(h, a) == \E q \in Queues : h = SealedHeader(q) /\ ~InList(q, a)

\* C11 as stated: a confirm command whose age, the current block number minus
\* the confirmed block number, is above MaxSignerCount leaves the confirmation
\* list and the refund map as they were; an age of exactly MaxSignerCount is
\* let through (a signer of the confirmed header is recorded).
C11_OldConfirmRejected ==
    (ConfirmCalled /\ HasNumberToken /\ Confirmed.ok) =>
        /\ number - Confirmed.val > MaxSignerCount => ConfirmUnchanged
        /\ (/\ number - Confirmed.val = MaxSignerCount
            /\ SealedWith(HeaderAt(Confirmed.val), lastTx.sender)) => ConfirmAppended

\* C12: for a confirm command that names a block within MaxSignerCount whose
\* header the chain reader returns with a decodable signer queue,
\* processEventConfirm appends Confirmation {sender, confirmed number} and
\* adds the refund entry {sender, gas price} under the transaction hash when
\* the sender is in that queue, and changes neither when it is not; whatever
\* the command, it appends and adds the entry together or does neither.
C12_ConfirmIffInQueue ==
    ConfirmCalled =>
        /\ ConfirmUnchanged \/ (HasNumberToken /\ ConfirmAppended)
        /\ (/\ HasNumberToken /\ Confirmed.ok
            /\ Looked < number /\ number - Looked <= MaxSignerCount) =>
              /\ SealedWith(HeaderAt(Looked), lastTx.sender) => ConfirmAppended
              /\ SealedWithout(HeaderAt(Looked), lastTx.sender) => ConfirmUnchanged

\* C12 witness: a signer of header 2 has confirmed it, after an earlier
\* confirmation of the block.
C12_Witness ==
    /\ ConfirmCalled /\ HasNumberToken /\ Confirmed.ok /\ Confirmed.val = 2
    /\ lastTx.sender = A2 /\ lastTx.gasPrice = 2
    /\ Len(Before.CurrentBlockConfirmations) = 1
    /\ Len(headerExtra.CurrentBlockConfirmations) = 2
    /\ Cardinality(refundHash) = 2

\* C12, the refusal: a3, who is not in the queue of header 2, within the age.
C12_WitnessOutsider ==
    /\ ConfirmCalled /\ HasNumberToken /\ Confirmed.ok /\ Confirmed.val = 2
    /\ lastTx.sender = A3 /\ number - 2 <= MaxSignerCount
    /\ ConfirmUnchanged

\* the headers of the chain that do not decode, and those too short
UndecodableHeaders == {0, 1}
ShortHeaders == {3}

\* C13: a confirm command leaves the confirmation list and the refund map as
\* they were, and no error comes back, when it has no number token, when the
\* token does not parse, when the chain reader returns no header for the
\* number, when the extra-data of the header is shorter than vanity plus
\* seal, and when the extra-data does not decode.
C13_ConfirmDropped ==
    ConfirmCalled =>
        /\ pc = "returned" /\ err = "nil"
        /\ ~HasNumberToken => ConfirmUnchanged
        /\ (HasNumberToken /\ ~Confirmed.ok) => ConfirmUnchanged
        /\ (HasNumberToken /\ Confirmed.ok /\ Looked >= number) => ConfirmUnchanged
        /\ (HasNumberToken /\ Confirmed.ok /\ Looked \in ShortHeaders) => ConfirmUnchanged
        /\ (HasNumberToken /\ Confirmed.ok /\ Looked \in UndecodableHeaders)
              => ConfirmUnchanged

\* C13 witness: a1 confirms header 1 within the age; the extra-data of that
\* header breaks off after a1.
C13_Witness ==
    /\ ConfirmCalled /\ HasNumberToken /\ Confirmed.ok /\ Confirmed.val = 1
    /\ lastTx.sender = A1 /\ number - 1 <= MaxSignerCount
    /\ Len(Before.CurrentBlockConfirmations) = 1
    /\ ConfirmUnchanged

\* C13, the other drops: no token, a token that is no number, the current
\* block (no header yet), the short header within the age.
C13_WitnessNoToken == ConfirmCalled /\ ~HasNumberToken
C13_WitnessNoNumber == ConfirmCalled /\ HasNumberToken /\ ~Confirmed.ok
C13_WitnessNoHeader ==
    ConfirmCalled /\ HasNumberToken /\ Confirmed.ok /\ Confirmed.val = number
C13_WitnessShort ==
    /\ ConfirmCalled /\ HasNumberToken /\ Confirmed.ok /\ Confirmed.val = 3
    /\ number > 3 /\ number - 3 <= MaxSignerCount

\* ----------------------------- reading a proposal or declare call

ProposalCalled == lastTx.op = "proposal"
DeclareCalled == lastTx.op = "declare"

\* the key/value pairs after the event token: pair i is tokens 2i+3, 2i+4
NPairs == IF Len(Split(lastTx.data)) < 4 THEN 0 ELSE (Len(Split(lastTx.data)) - 4) \div 2
PairKey(i) == Split(lastTx.data)[2 * i + 3]
PairVal(i) == Split(lastTx.data)[2 * i + 4]

ProposalUnchanged ==
    /\ headerExtra.CurrentBlockProposals = Before.CurrentBlockProposals
    /\ balance = prev.balance

\* exactly one record was appended
ProposalAppended ==
    /\ Len(headerExtra.CurrentBlockProposals) = Len(Before.CurrentBlockProposals) + 1
    /\ SubSeq(headerExtra.CurrentBlockProposals, 1, Len(Before.CurrentBlockProposals))
          = Before.CurrentBlockProposals

LastProposal == headerExtra.CurrentBlockProposals[Len(headerExtra.CurrentBlockProposals)]

\* what the call took from the sender, and that it took from nobody else
Debited == prev.balance[lastTx.sender] - balance[lastTx.sender]
OnlySenderPaid == \A a \in Addrs \ {lastTx.sender} : balance[a] = prev.balance[a]

\* the validators as the claim gives them
NumericKeys ==
    {K_vlcnt, K_mrpt, K_mvb, K_mpd, K_scrf, K_scrr, K_scrl, K_sccount, K_screward,
     K_proposal_type}

FailsValidator(k, v) ==
    LET n == Atoi(v)
    IN \/ k \in NumericKeys /\ ~n.ok
       \/ /\ n.ok
          /\ \/ k = K_vlcnt /\ (n.val < 4 \/ n.val > 50000)
             \/ k = K_mrpt /\ (n.val <= 0 \/ n.val > 1000)
             \/ k = K_mvb /\ n.val <= 0
             \/ k = K_mpd /\ (n.val <= 0 \/ n.val > 100000)
             \/ k = K_scrf /\ n.val < 100
             \/ k = K_scrr /\ n.val <= 0
             \/ k = K_scrl /\ (n.val < 850000 \/ n.val > 10200000)

SomePairFails == \E i \in 1..NPairs : FailsValidator(PairKey(i), PairVal(i))

\* C14: a proposal command in which some numeric key fails its validator
\* leaves the proposal list and every balance as they were, whatever pairs
\* come before or after the failing one; mrpt:1500 is dropped.
C14_InvalidFieldDropped ==
    /\ (ProposalCalled /\ SomePairFails) => ProposalUnchanged
    /\ (ProposalCalled /\ lastTx.data = ProposalCmd(<<K_mrpt, <<"1", "5", "0", "0">>>>))
          => ProposalUnchanged

\* C14 witness: mrpt:1500 from a proposer who can pay the deposit, on a list
\* that holds a proposal.
C14_Witness ==
    /\ ProposalCalled /\ lastTx.data = ProposalCmd(<<K_mrpt, <<"1", "5", "0", "0">>>>)
    /\ prev.balance[lastTx.sender] >= proposalDeposit
    /\ Len(Before.CurrentBlockProposals) = 1
    /\ pc = "returned"

\* C14, the failing pair after a valid one and before a valid one.
C14_WitnessAfterValid ==
    /\ ProposalCalled /\ NPairs = 2 /\ ~FailsValidator(PairKey(1), PairVal(1))
    /\ FailsValidator(PairKey(2), PairVal(2))
    /\ prev.balance[lastTx.sender] >= proposalDeposit

C14_WitnessBeforeValid ==
    /\ ProposalCalled /\ NPairs = 2 /\ FailsValidator(PairKey(1), PairVal(1))
    /\ ~FailsValidator(PairKey(2), PairVal(2)) /\ PairKey(1) = K_scrl
    /\ prev.balance[lastTx.sender] >= proposalDeposit

\* v is 0x or 0X and exactly 2 * n hex digits: the text of n bytes
DecodesAs(v, n) ==
    /\ Len(v) = 2 + 2 * n
    /\ v[1] = "0" /\ v[2] \in {"x", "X"}
    /\ \A i \in 3..Len(v) : v[i] \in HexChars

\* pair i carries an address or a hash that does not decode
BadProposalHex(i) ==
    \/ PairKey(i) \in {K_candidate, K_scrt} /\ ~DecodesAs(PairVal(i), 1)
    \/ PairKey(i) = K_schash /\ ~DecodesAs(PairVal(i), 2)

BadDeclareHex(i) == PairKey(i) = K_hash /\ ~DecodesAs(PairVal(i), 2)

\* the tokens of lastTx with the key of every such pair made a key that no
\* command knows
RenamedKey == <<"_">>

BadProposalHexRenamed ==
    [j \in 1..Len(Split(lastTx.data)) |->
        IF \E i \in 1..NPairs : j = 2 * i + 3 /\ BadProposalHex(i)
        THEN RenamedKey ELSE Split(lastTx.data)[j]]

BadDeclareHexRenamed ==
    [j \in 1..Len(Split(lastTx.data)) |->
        IF \E i \in 1..NPairs : j = 2 * i + 3 /\ BadDeclareHex(i)
        THEN RenamedKey ELSE Split(lastTx.data)[j]]

C15_WitnessProposal ==
    /\ ProposalCalled /\ lastTx.data = ProposalCmd(<<K_candidate, <<"x", "y", "z">>>>)
    /\ ProposalAppended /\ Debited = proposalDeposit

\* the keys the two switches know
ProposalKnownKeys ==
    {K_vlcnt, K_schash, K_sccount, K_screward, K_proposal_type, K_candidate, K_mrpt,
     K_mvb, K_mpd, K_scrt, K_scrf, K_scrr, K_scrl}

DeclareKnownKeys == {K_hash, K_decision}

\* the pairs of toks from token i on whose key is in known, and a last token
\* without value
RECURSIVE KnownPairs(_, _, _)
KnownPairs(toks, i, known) ==
    IF i > Len(toks) THEN <<>>
    ELSE IF i = Len(toks) THEN <<toks[i]>>
    ELSE (IF toks[i] \in known THEN <<toks[i], toks[i + 1]>> ELSE <<>>)
         \o KnownPairs(toks, i + 2, known)

\* lastTx's command without the pairs of unknown key
Stripped(known) ==
    SubSeq(Split(lastTx.data), 1, 4) \o KnownPairs(Split(lastTx.data), 5, known)

HasUnknownPair(known) == \E i \in 1..NPairs : PairKey(i) \notin known
HasKnownPair(known) == \E i \in 1..NPairs : PairKey(i) \in known

\* C16: a proposal or declare command that holds pairs of unknown key among
\* pairs of known key gives the list (and the balances) that the command
\* without the unknown pairs gives. type 1, foo:bar, mrpt:5 adds the default
\* proposal with 5 per thousand; foo:bar, hash, decision:no adds the Declare
\* of that hash with decision false.
C16_UnknownKeysSkipped ==
    /\ (ProposalCalled /\ HasKnownPair(ProposalKnownKeys)) =>
          LET r == processEventProposal(Before.CurrentBlockProposals,
                                        Stripped(ProposalKnownKeys), prev.balance, lastTx,
                                        lastTx.sender, Snapshot(voters, SideChains))
          IN headerExtra.CurrentBlockProposals = r.proposals /\ balance = r.state
    /\ (DeclareCalled /\ HasKnownPair(DeclareKnownKeys)) =>
          headerExtra.CurrentBlockDeclares =
             processEventDeclare(Before.CurrentBlockDeclares, Stripped(DeclareKnownKeys),
                                 lastTx, lastTx.sender)
    /\ (/\ ProposalCalled
        /\ lastTx.data = ProposalCmd(Pair_type1 \o Pair_unknown \o Pair_mrpt5)
        /\ prev.balance[lastTx.sender] >= proposalDeposit) =>
          /\ ProposalAppended
          /\ LastProposal =
                [DefaultProposal(lastTx, lastTx.sender) EXCEPT !.MinerRewardPerThousand = 5]
    /\ (DeclareCalled /\ lastTx.data = DeclareCmd(Pair_unknown \o Pair_hash4 \o Pair_no)) =>
          headerExtra.CurrentBlockDeclares =
             Append(Before.CurrentBlockDeclares,
                    [ProposalHash |-> TxHash(4), Declarer |-> lastTx.sender,
                     Decision |-> FALSE])

\* C16 witness: a declare with foo:bar between hash and decision:no has added
\* its Declare.
C16_Witness ==
    /\ DeclareCalled /\ lastTx.data = DeclareCmd(Pair_hash4 \o Pair_unknown \o Pair_no)
    /\ Len(headerExtra.CurrentBlockDeclares) = Len(Before.CurrentBlockDeclares) + 1
    /\ ~headerExtra.CurrentBlockDeclares[Len(headerExtra.CurrentBlockDeclares)].Decision

\* C16, the proposal: a rent-side-chain command with two unknown pairs among
\* its keys was accepted.
C16_WitnessProposal ==
    /\ ProposalCalled /\ HasUnknownPair(ProposalKnownKeys) /\ NPairs = 6
    /\ ProposalAppended /\ LastProposal.SCRentFee = 100

\* the rent-side-chain commands for the registered chain and target a3
Rent100 == ProposalCmd(Pair_type8 \o Pair_sc1 \o Pair_scrtA3 \o Pair_scrf100)
Rent150 == ProposalCmd(Pair_type8 \o Pair_sc1 \o Pair_scrtA3 \o Pair_scrf150)

\* no pair of lastTx asks for the rent-side-chain type
NoRentType ==
    \A i \in 1..NPairs : ~(PairKey(i) = K_proposal_type /\ Atoi(PairVal(i)).val = 8)

\* lastTx is a proposal command that passes the validators, of cost c
ValidOfCost(c) ==
    /\ ProposalCalled
    /\ \/ c = proposalDeposit /\ NPairs >= 1 /\ ~SomePairFails /\ NoRentType
       \/ c = proposalDeposit + 100 * Ether /\ lastTx.data = Rent100
       \/ c = proposalDeposit + 150 * Ether /\ lastTx.data = Rent150

Costs == {proposalDeposit, proposalDeposit + 100 * Ether, proposalDeposit + 150 * Ether}

\* C17: for a proposal command that passes the validators, of cost C: a
\* proposer with at least C gets exactly one Proposal appended and pays
\* exactly C, staying at 0 or above; a proposer with less gets nothing
\* appended and pays nothing; the call returns. With balance 50, deposit 20
\* and proposal_type:1 the balance becomes 30 and the one Proposal has
\* CurrentDeposit 20.
C17_DepositDebited ==
    /\ \A c \in Costs :
          ValidOfCost(c) =>
             /\ pc = "returned" /\ err = "nil"
             /\ IF prev.balance[lastTx.sender] >= c
                THEN /\ ProposalAppended
                     /\ balance = [prev.balance EXCEPT ![lastTx.sender] = @ - c]
                     /\ balance[lastTx.sender] >= 0
                ELSE ProposalUnchanged
    /\ (/\ ProposalCalled /\ lastTx.data = ProposalCmd(Pair_type1)
        /\ prev.balance[lastTx.sender] = 50 * Ether
        /\ Before.CurrentBlockProposals = <<>>) =>
          /\ balance[lastTx.sender] = 30 * Ether
          /\ Len(headerExtra.CurrentBlockProposals) = 1
          /\ headerExtra.CurrentBlockProposals[1].CurrentDeposit = 20 * Ether

\* C17 witness: proposal_type:1 from a proposer with 50 on an empty list.
C17_Witness ==
    /\ ProposalCalled /\ lastTx.data = ProposalCmd(Pair_type1)
    /\ prev.balance[lastTx.sender] = 50 * Ether
    /\ Before.CurrentBlockProposals = <<>>
    /\ balance[lastTx.sender] = 30 * Ether

\* C17, the refusals: one short of the deposit, and one short of a rent.
C17_WitnessShort ==
    /\ ValidOfCost(proposalDeposit)
    /\ prev.balance[lastTx.sender] = proposalDeposit - 1 /\ ProposalUnchanged

C17_WitnessShortRent ==
    /\ ValidOfCost(proposalDeposit + 100 * Ether)
    /\ prev.balance[lastTx.sender] = proposalDeposit + 100 * Ether - 1
    /\ ProposalUnchanged

\* C17, the exact amounts: the proposer is left with 0.
C17_WitnessExact ==
    /\ ValidOfCost(proposalDeposit + 100 * Ether) /\ ProposalAppended
    /\ balance[lastTx.sender] = 0

\* C18 as stated: every Proposal appended has a CurrentDeposit of at least
\* the deposit of its type, and the proposer was debited exactly that
\* CurrentDeposit, the rent-side-chain type included.
C18_DebitIsCurrentDeposit ==
    (ProposalCalled /\ ProposalAppended) =>
        /\ LastProposal.CurrentDeposit >= proposalDeposit
        /\ Debited = LastProposal.CurrentDeposit

\* C18 amended: every Proposal appended has CurrentDeposit equal to the fixed
\* proposal deposit, the least deposit of every type; the proposer was debited
\* exactly CurrentDeposit for every type but rent-side-chain, and
\* CurrentDeposit plus SCRentFee times 1e18 for rent-side-chain; nobody else
\* was debited.
C18_DebitIsDepositPlusFee ==
    (ProposalCalled /\ ProposalAppended) =>
        /\ LastProposal.CurrentDeposit = proposalDeposit
        /\ OnlySenderPaid
        /\ Debited = IF LastProposal.ProposalType = [wraps |-> 0, val |-> 8]
                     THEN LastProposal.CurrentDeposit + LastProposal.SCRentFee * Ether
                     ELSE LastProposal.CurrentDeposit

\* C18 witness: a rent-side-chain proposal of fee 100 was appended.
C18_Witness ==
    /\ ProposalCalled /\ lastTx.data = Rent100 /\ ProposalAppended
    /\ LastProposal.SCRentFee = 100
    /\ Debited = proposalDeposit + 100 * Ether

\* what the proposal p cost its proposer
CostOf(p) ==
    IF p.ProposalType = [wraps |-> 0, val |-> 8]
    THEN proposalDeposit + p.SCRentFee * Ether ELSE proposalDeposit

\* the costs of the proposals of l made by a, added up
RECURSIVE SumCosts(_, _)
SumCosts(l, a) ==
    IF l = <<>> THEN 0
    ELSE (IF Head(l).Proposer = a THEN CostOf(Head(l)) ELSE 0) + SumCosts(Tail(l), a)

\* C19: over a sequence of calls on one world state, what each address has
\* paid is the sum of the costs of its accepted proposals and never more than
\* it had before the sequence, and no balance is below 0; a proposal is
\* accepted only if the balance the earlier calls left covers its cost, and
\* is then debited from that balance.
C19_NoOverspend ==
    /\ \A a \in Addrs :
          /\ balance[a] >= 0
          /\ InitBalance[a] - balance[a] = SumCosts(headerExtra.CurrentBlockProposals, a)
          /\ SumCosts(headerExtra.CurrentBlockProposals, a) <= InitBalance[a]
    /\ (ProposalCalled /\ ProposalAppended) =>
          /\ prev.balance[lastTx.sender] >= CostOf(LastProposal)
          /\ balance[lastTx.sender] = prev.balance[lastTx.sender] - CostOf(LastProposal)
    /\ (ProposalCalled /\ ~ProposalAppended) => ProposalUnchanged

\* C19 witness: a second rent-side-chain proposal of the same proposer was
\* dropped, the first having left less than its cost.
C19_Witness ==
    /\ ProposalCalled /\ lastTx.data = ProposalCmd(RentPairs)
    /\ Len(Before.CurrentBlockProposals) = 1
    /\ Before.CurrentBlockProposals[1].Proposer = lastTx.sender
    /\ Before.CurrentBlockProposals[1].SCRentFee = 100
    /\ InitBalance[lastTx.sender] >= proposalDeposit + 100 * Ether
    /\ prev.balance[lastTx.sender] < proposalDeposit + 100 * Ether
    /\ ProposalUnchanged

\* C19, two accepted in a row: the second paid from what the first left.
C19_WitnessTwo ==
    /\ ProposalCalled /\ Len(headerExtra.CurrentBlockProposals) = 2
    /\ headerExtra.CurrentBlockProposals[1].Proposer = lastTx.sender
    /\ headerExtra.CurrentBlockProposals[2].Proposer = lastTx.sender
    /\ balance[lastTx.sender] = InitBalance[lastTx.sender] - 2 * proposalDeposit

\* the rent-side-chain commands that name no registered chain or no target
RentRefused ==
    { ProposalCmd(Pair_type8 \o <<K_schash, <<"0", "x", "5", "c", "0", "2">>>>
                  \o Pair_scrtA3 \o Pair_scrf100),
      ProposalCmd(Pair_type8 \o Pair_scrtA3 \o Pair_scrf100),
      ProposalCmd(Pair_type8 \o Pair_sc1 \o Pair_scrf100),
      ProposalCmd(Pair_type8 \o Pair_sc1 \o <<K_scrt, <<"0", "x", "0", "0">>>> \o Pair_scrf100),
      ProposalCmd(Pair_type8) }

\* C20: a rent-side-chain Proposal is appended only with a side-chain hash
\* the snapshot holds and a target address that is not zero, and costs the
\* deposit plus its rent fee times 1e18; a Proposal of any other type costs
\* the deposit. The complete command of fee 100 from a proposer who can pay
\* is accepted at that cost; the commands with an unregistered or missing
\* hash, or a missing or zero target, are dropped.
C20_RentSideChain ==
    /\ (ProposalCalled /\ ProposalAppended) =>
          IF LastProposal.ProposalType = [wraps |-> 0, val |-> 8]
          THEN /\ LastProposal.SCHash \in SideChains
               /\ LastProposal.TargetAddress # ZeroAddr
               /\ Debited = proposalDeposit + LastProposal.SCRentFee * Ether
          ELSE Debited = proposalDeposit
    /\ (/\ ProposalCalled /\ lastTx.data = Rent100
        /\ prev.balance[lastTx.sender] >= proposalDeposit + 100 * Ether) =>
          /\ ProposalAppended
          /\ LastProposal.ProposalType = [wraps |-> 0, val |-> 8]
          /\ LastProposal.SCHash = SC1 /\ LastProposal.TargetAddress = A3
          /\ Debited = proposalDeposit + 100 * Ether
    /\ (ProposalCalled /\ lastTx.data \in RentRefused) => ProposalUnchanged

\* C20 witness: the command of fee 150 was accepted and cost the deposit and
\* 150 coins.
C20_Witness ==
    /\ ProposalCalled /\ lastTx.data = Rent150 /\ ProposalAppended
    /\ Debited = proposalDeposit + 150 * Ether

\* C20, the refusals: an unregistered chain and a zero target, from a
\* proposer who could pay.
C20_WitnessUnregistered ==
    /\ ProposalCalled
    /\ lastTx.data = ProposalCmd(Pair_type8 \o <<K_schash, <<"0", "x", "5", "c", "0", "2">>>>
                                 \o Pair_scrtA3 \o Pair_scrf100)
    /\ prev.balance[lastTx.sender] >= proposalDeposit + 100 * Ether

C20_WitnessZeroTarget ==
    /\ ProposalCalled /\ lastTx.data = ProposalCmd(Pair_type8 \o Pair_sc1 \o Pair_scrf100)
    /\ prev.balance[lastTx.sender] >= proposalDeposit + 100 * Ether

\* C20, another type with a rent fee among its keys costs the deposit.
C20_WitnessOtherType ==
    /\ ProposalCalled /\ ProposalAppended
    /\ LastProposal.ProposalType = [wraps |-> 0, val |-> 1]
    /\ LastProposal.SCRentFee = 150 /\ Debited = proposalDeposit

\* ----------------------------------------------- reading a declare's pairs

\* the complete pairs of the command whose key is decision
DecisionPairs == {i \in 1..NPairs : PairKey(i) = K_decision}
LastDecision == PairVal(CHOOSE i \in DecisionPairs : \A j \in DecisionPairs : j <= i)

DeclareUnchanged == headerExtra.CurrentBlockDeclares = Before.CurrentBlockDeclares

\* exactly one record was appended
DeclareAppended ==
    /\ Len(headerExtra.CurrentBlockDeclares) = Len(Before.CurrentBlockDeclares) + 1
    /\ SubSeq(headerExtra.CurrentBlockDeclares, 1, Len(Before.CurrentBlockDeclares))
          = Before.CurrentBlockDeclares

LastDeclare == headerExtra.CurrentBlockDeclares[Len(headerExtra.CurrentBlockDeclares)]

\* C21: a declare command that holds at least one key/value pair and in which
\* some decision pair has a value other than yes and no leaves the declare
\* list unchanged; any other such command appends exactly one Declare, whose
\* Declarer is the sender and whose Decision is true when the command has no
\* decision pair, true when its last decision pair says yes and false when it
\* says no.
C21_DeclareDecision ==
    (DeclareCalled /\ NPairs >= 1) =>
       IF \E i \in DecisionPairs : PairVal(i) \notin {K_yes, K_no}
       THEN DeclareUnchanged
       ELSE /\ DeclareAppended
            /\ LastDeclare.Declarer = lastTx.sender
            /\ LastDeclare.Decision = (DecisionPairs = {} \/ LastDecision = K_yes)

\* C21 witness: a command with a hash and no decision pair has added a Declare
\* from its sender with decision true.
C21_Witness ==
    /\ DeclareCalled /\ lastTx.data = DeclareCmd(Pair_hash4)
    /\ DeclareAppended /\ LastDeclare.Decision /\ LastDeclare.Declarer = lastTx.sender

\* C21, decision no: the Declare added says false.
C21_WitnessNo ==
    /\ DeclareCalled /\ lastTx.data = DeclareCmd(Pair_hash4 \o Pair_no)
    /\ DeclareAppended /\ ~LastDeclare.Decision

\* C21, decision yes after decision no: the Declare added says true.
C21_WitnessYes ==
    /\ DeclareCalled /\ lastTx.data = DeclareCmd(Pair_no \o Pair_yes)
    /\ DeclareAppended /\ LastDeclare.Decision

\* C21, another decision value: the list given held a record and came back
\* as it was.
C21_WitnessOther ==
    /\ DeclareCalled
    /\ lastTx.data = DeclareCmd(Pair_hash4 \o <<K_decision, <<"m", "a", "y", "b", "e">>>>)
    /\ DeclareUnchanged /\ Len(headerExtra.CurrentBlockDeclares) = 1

\* ------------------------------------------- reading the predecessor votes

\* processPredecessorVoter was called on the last transaction (line 358)
PredecessorCalled == Folded /\ number > 1

\* the re-assertion of a's stake when the snapshot holds a as a voter
StakeRecord(a) ==
    IF a \in voters
    THEN <<[Voter |-> a, Candidate |-> ZeroAddr, Stake |-> prev.balance[a]]>>
    ELSE <<>>

\* C22: called on a transaction with a value above 0 and a recipient,
\* processPredecessorVoter returns its list followed by the record {voter = sender,
\* candidate = zero address, stake = the sender's balance} when the snapshot
\* holds the sender as a voter, and then by the same record of the recipient
\* when the snapshot holds the recipient as a voter; on a transaction with value
\* 0 or without recipient, or when neither is a voter, it returns its list.
C22_PredecessorVotes ==
    PredecessorCalled =>
       headerExtra.ModifyPredecessorVotes =
          IF lastTx.value > 0 /\ lastTx.to # NoTo
          THEN Before.ModifyPredecessorVotes \o StakeRecord(lastTx.sender)
                                             \o StakeRecord(lastTx.to)
          ELSE Before.ModifyPredecessorVotes

\* C22 witness: a2 sent value to a3, both voters of the snapshot, and two
\* records were added, a2's of stake 500 before a3's of stake 100.
C22_Witness ==
    /\ PredecessorCalled /\ lastTx.sender = A2 /\ lastTx.to = A3 /\ lastTx.value > 0
    /\ voters = {A2, A3}
    /\ Len(headerExtra.ModifyPredecessorVotes) = Len(Before.ModifyPredecessorVotes) + 2
    /\ headerExtra.ModifyPredecessorVotes[Len(Before.ModifyPredecessorVotes) + 1] =
          [Voter |-> A2, Candidate |-> ZeroAddr, Stake |-> 500]
    /\ headerExtra.ModifyPredecessorVotes[Len(Before.ModifyPredecessorVotes) + 2] =
          [Voter |-> A3, Candidate |-> ZeroAddr, Stake |-> 100]

\* C22, one side only: the sender alone is a voter; the recipient alone is.
C22_WitnessSender ==
    /\ PredecessorCalled /\ lastTx.sender = A1 /\ lastTx.to = A3 /\ lastTx.value > 0
    /\ voters = {A1}
    /\ headerExtra.ModifyPredecessorVotes =
          Append(Before.ModifyPredecessorVotes,
                 [Voter |-> A1, Candidate |-> ZeroAddr, Stake |-> 1500])

C22_WitnessRecipient ==
    /\ PredecessorCalled /\ lastTx.sender = A1 /\ lastTx.to = A3 /\ lastTx.value > 0
    /\ voters = {A2, A3}
    /\ headerExtra.ModifyPredecessorVotes =
          Append(Before.ModifyPredecessorVotes,
                 [Voter |-> A3, Candidate |-> ZeroAddr, Stake |-> 100])

\* C22, nothing added: neither is a voter; a voter sends value 0; a voter
\* sends a value without recipient. The list given held a record.
C22_WitnessNeither ==
    /\ PredecessorCalled /\ lastTx.sender = A2 /\ lastTx.to = A3 /\ lastTx.value > 0
    /\ voters = {A1} /\ Len(Before.ModifyPredecessorVotes) = 1
    /\ headerExtra.ModifyPredecessorVotes = Before.ModifyPredecessorVotes

C22_WitnessZeroValue ==
    /\ PredecessorCalled /\ lastTx.sender = A1 /\ lastTx.to = A2 /\ lastTx.value = 0
    /\ voters = {A1} /\ Len(Before.ModifyPredecessorVotes) = 1
    /\ headerExtra.ModifyPredecessorVotes = Before.ModifyPredecessorVotes

C22_WitnessNoRecipient ==
    /\ PredecessorCalled /\ lastTx.sender = A1 /\ lastTx.to = NoTo /\ lastTx.value > 0
    /\ voters = {A1} /\ Len(Before.ModifyPredecessorVotes) = 1
    /\ headerExtra.ModifyPredecessorVotes = Before.ModifyPredecessorVotes

\* the last transaction with its payload emptied: an ordinary transfer
PlainTransfer == [lastTx EXCEPT !.data = <<>>]

C23_WitnessRefused ==
    /\ Carries(ModReward(<<"7">>)) /\ ~SentByAdmin
    /\ lastTx.value > 0 /\ lastTx.to = A3 /\ voters = {A2, A3}
    /\ Len(headerExtra.ModifyPredecessorVotes) = Len(Before.ModifyPredecessorVotes) + 2

\* ------------------------------------------------ reading the whole call

\* processCustomTx has returned
Returned == pc = "done"

\* the snapshot of the parent block is asked for and cannot be read
SnapshotFails == number > 1 /\ ~snapOk

\* C24: when the block number is above 1 and the snapshot of the parent block
\* cannot be read, no transaction is processed, and processCustomTx returns
\* the error of the snapshot with the accumulator it was given and a nil
\* refund ledger, all balances being as they were.
C24_SnapshotErrorReturned ==
    SnapshotFails =>
       /\ pc # "loop" /\ idx = 0 /\ lastTx = NoTx
       /\ headerExtra = prev.extra /\ balance = prev.balance
       /\ Returned => (err = "snapshot" /\ refundGas = "nil")

\* C24 witness: the call has returned the error of the snapshot at block 2
\* with the two candidate signers it was given.
C24_Witness ==
    /\ SnapshotFails /\ Returned /\ err = "snapshot"
    /\ headerExtra = NewHeaderExtra(<<A2, A3>>, A1)

\* types.Sender returned an error for the last transaction
Unrecovered == lastTx.op = "tx" /\ ~lastTx.senderOk

\* C25: a transaction whose sender cannot be recovered changes no field of
\* the accumulator (no admin field, no ModifyPredecessorVotes) and no
\* balance, raises no error and does not end the loop: the accumulator after
\* it is the accumulator before it, which is what the block without that
\* transaction has at that point.
C25_UnrecoveredSkipped ==
    Unrecovered =>
       /\ headerExtra = Before /\ balance = prev.balance
       /\ err = "nil" /\ refundGas = <<>>
       /\ pc = "loop" \/ Returned

\* C25 witness: no SignerAdmin is set, so that the zero address types.Sender
\* gives with its error is the admin's; the unrecovered transaction carries
\* modadmin and a value for the voter a2, it comes second in the block, and
\* the admin is still unset and the list of stake records as the first
\* transaction left it.
C25_Witness ==
    /\ Unrecovered /\ idx = 2 /\ lastTx.data = Join(AdminCmd(dposAdminModifyAdmin))
    /\ lastTx.value > 0 /\ lastTx.to \in voters /\ number > 1
    /\ headerExtra.SignerAdmin = ZeroAddr /\ lastTx.sender = ZeroAddr
    /\ Len(headerExtra.ModifyPredecessorVotes) = 2
    /\ pc = "loop"

\* C25, the end of the list is reached after the skipped transaction.
C25_WitnessReturned ==
    /\ Unrecovered /\ Returned /\ err = "nil" /\ lastTx.value > 0 /\ number > 1

\* C26: when the snapshot is not asked for or can be read, no step of
\* processCustomTx sets an error, whatever the transactions hold, and the
\* call goes on to the end of the list and returns.
C26_NeverFailsOnContent ==
    /\ [](~SnapshotFails => err = "nil")
    /\ (~SnapshotFails) ~> (Returned /\ err = "nil")

\* C26 witness: the call has returned without error after two transactions,
\* the last one a payload of the wrong version or prefix or of three tokens
\* only, sent by the admin.
C26_Witness ==
    /\ ~SnapshotFails /\ Returned /\ err = "nil" /\ idx = MaxTxs
    /\ Folded /\ NotACommand /\ lastTx.data # <<>> /\ lastTx.sender = Before.SignerAdmin

\* C26, other contents: an unknown admin event, a modratio with a value that
\* is no number, an event command, an admin command without recipient.
C26_WitnessUnknown ==
    /\ Returned /\ err = "nil" /\ Carries(AdminCmd(<<"b", "o", "g", "u", "s">>)) /\ SentByAdmin

C26_WitnessNoNumber ==
    /\ Returned /\ err = "nil" /\ Carries(ModRatio(<<"x">>)) /\ SentByAdmin

C26_WitnessEvent ==
    /\ Returned /\ err = "nil" /\ Carries(Append(EventCmd(dposEventConfirm), <<"1">>))

C26_WitnessNoRecipient ==
    /\ Returned /\ err = "nil" /\ Carries(AdminCmd(dposAdminAddSigner))
    /\ lastTx.sender = Before.SignerAdmin /\ lastTx.to = NoTo

\* ------------------------------------------- reading a confirm in a block

\* the chain a block of Spec is built on: every earlier block was sealed with
\* the signer queue the accumulator holds
ParentChain == [i \in 0..(number - 1) |-> SealedHeader(Before.SignerQueue)]

\* the last transaction of the block is a confirm command that
\* processEventConfirm accepts on that chain
ConfirmAccepted ==
    /\ Folded /\ Len(Split(lastTx.data)) > posEventConfirmNumber
    /\ SubSeq(Split(lastTx.data), 1, 4) = EventCmd(dposEventConfirm)
    /\ processEventConfirm(<<>>, ParentChain, Split(lastTx.data), number,
                           [hash |-> TxHash(1), gasPrice |-> 1], lastTx.sender,
                           {}).list # <<>>

\* C27 as stated: when processCustomTx has returned from a block whose last
\* transaction is an accepted confirm command, the refund ledger holds an
\* entry for its sender; a block of one transaction that is no accepted
\* confirm command gives an empty ledger.
C27_ConfirmRefunded ==
    (Returned /\ err = "nil") =>
       /\ ConfirmAccepted => lastTx.sender \in DOMAIN refundGas
       /\ (idx = 1 /\ ~ConfirmAccepted) => refundGas = <<>>

\* ----------------------------------------------- reading the round trip

Original == prev.extra

\* C28 as stated: encodeHeaderExtra gives bytes for every accumulator, and
\* decodeHeaderExtra gives from them, without error, an accumulator equal to
\* the one encoded, also when lists are empty and PerBlockReward is unset.
C28_RoundTrip ==
    /\ pc = "returned" => err = "nil"
    /\ pc = "decoded" => (err = "nil" /\ headerExtra = Original)

\* ---------------------------------------------------------------- C29

\* the list each of the eight functions is given and returns
ListOf(op) ==
    CASE op = "vote" -> "CurrentBlockVotes"
      [] op = "confirm" -> "CurrentBlockConfirmations"
      [] op = "proposal" -> "CurrentBlockProposals"
      [] op = "declare" -> "CurrentBlockDeclares"
      [] op = "predecessor" -> "ModifyPredecessorVotes"
      [] op = "scconfirm" -> "SideChainConfirmations"
      [] op = "scnotice" -> "SideChainNoticeConfirmed"
      [] op = "sccoinbase" -> "SideChainSetCoinbases"

ListGiven == prev.extra[ListOf(lastTx.op)]
ListReturned == headerExtra[ListOf(lastTx.op)]
NewRecords == Len(ListReturned) - Len(ListGiven)

\* C29: the list a function returns starts with the list it was given, record
\* for record, and is longer by at most one record, by at most two for
\* processPredecessorVoter
C29_AppendOnly ==
    pc = "returned" =>
        /\ NewRecords >= 0
        /\ SubSeq(ListReturned, 1, Len(ListGiven)) = ListGiven
        /\ NewRecords <= (IF lastTx.op = "predecessor" THEN 2 ELSE 1)

\* a set-coinbase record was appended to a list that held one
C29_Witness ==
    /\ pc = "returned" /\ lastTx.op = "sccoinbase"
    /\ ListGiven # <<>> /\ NewRecords = 1

\* processPredecessorVoter appended two records to a list that held one
C29_WitnessTwo ==
    /\ pc = "returned" /\ lastTx.op = "predecessor"
    /\ ListGiven # <<>> /\ NewRecords = 2

C29_WitnessVote == pc = "returned" /\ lastTx.op = "vote" /\ ListGiven # <<>> /\ NewRecords = 1
C29_WitnessConfirm == pc = "returned" /\ lastTx.op = "confirm" /\ ListGiven # <<>> /\ NewRecords = 1
C29_WitnessProposal == pc = "returned" /\ lastTx.op = "proposal" /\ ListGiven # <<>> /\ NewRecords = 1
C29_WitnessDeclare == pc = "returned" /\ lastTx.op = "declare" /\ ListGiven # <<>> /\ NewRecords = 1
C29_WitnessSCConfirm == pc = "returned" /\ lastTx.op = "scconfirm" /\ ListGiven # <<>> /\ NewRecords = 1
C29_WitnessNotice == pc = "returned" /\ lastTx.op = "scnotice" /\ ListGiven # <<>> /\ NewRecords = 1

\* a call that appended nothing: a notice without charging information
C29_WitnessNone ==
    pc = "returned" /\ lastTx.op = "scnotice" /\ ListGiven # <<>> /\ NewRecords = 0

\* ---------------------------------------------------------------- C30

\* the eight proposal types of lines 85-92
EnumeratedTypes == {Uint64(t) : t \in proposalTypeCandidateAdd..proposalTypeRentSideChain}

\* the command carries proposal_type with an integer that is none of the eight
NamesOtherType ==
    \E i \in 1..NPairs :
        /\ PairKey(i) = K_proposal_type
        /\ Atoi(PairVal(i)).ok
        /\ Uint64(Atoi(PairVal(i)).val) \notin EnumeratedTypes

\* C30: a Proposal that processEventProposal appends has one of the types 1
\* to 8, and a command with proposal_type 0, 9 or another integer adds no
\* record
C30_TypeEnumerated ==
    (pc = "returned" /\ ProposalCalled) =>
        /\ ProposalAppended => LastProposal.ProposalType \in EnumeratedTypes
        /\ NamesOtherType => ProposalUnchanged

\* the record the code appends for proposal_type:9
C30_Recorded9 ==
    /\ pc = "returned" /\ ProposalCalled /\ ProposalAppended
    /\ lastTx.data = ProposalCmd(<<K_proposal_type, <<"9">>>>)
    /\ LastProposal.ProposalType = Uint64(9)

\* and for proposal_type:-1, kept as 2^64 - 1
C30_RecordedWrapped ==
    /\ pc = "returned" /\ ProposalCalled /\ ProposalAppended
    /\ lastTx.data = ProposalCmd(<<K_proposal_type, <<"-", "1">>>>)
    /\ LastProposal.ProposalType = [wraps |-> 1, val |-> 0 - 1]

\* ---------------------------------------------------------------- C31

\* the command names a block above the current one
NamesLaterBlock == HasNumberToken /\ Confirmed.ok /\ Confirmed.val > number

C31_WitnessAccepted ==
    /\ pc = "returned" /\ ConfirmCalled /\ HasNumberToken /\ Confirmed.ok
    /\ number = 5 /\ Confirmed.val = 5 /\ lastTx.sender = A1
    /\ ConfirmAppended

\* ---------------------------------------------------------------- C32

\* no key/value pair of the command has the key k
KeyAbsent(k) == \A i \in 1..NPairs : PairKey(i) # k

\* C32: a Proposal that processEventProposal appends carries the hash of the
\* transaction, the sender as proposer, no Declares and the fixed deposit,
\* and the default of every field whose key the command does not give
C32_Defaults ==
    (pc = "returned" /\ ProposalCalled /\ ProposalAppended) =>
        /\ LastProposal.Hash = lastTx.hash
        /\ LastProposal.Proposer = lastTx.sender
        /\ LastProposal.Declares = <<>>
        /\ LastProposal.CurrentDeposit = proposalDeposit
        /\ KeyAbsent(K_vlcnt) => LastProposal.ValidationLoopCnt = 10000
        /\ KeyAbsent(K_proposal_type) => LastProposal.ProposalType = Uint64(1)
        /\ KeyAbsent(K_sccount) => LastProposal.SCBlockCountPerPeriod = Uint64(1)
        /\ KeyAbsent(K_screward) => LastProposal.SCBlockRewardPerPeriod = Uint64(0)
        /\ KeyAbsent(K_scrf) => LastProposal.SCRentFee = 0
        /\ KeyAbsent(K_scrr) => LastProposal.SCRentRate = 1
        /\ KeyAbsent(K_scrl) => LastProposal.SCRentLength = 2550000
        /\ (KeyAbsent(K_candidate) /\ KeyAbsent(K_scrt)) =>
              LastProposal.TargetAddress = ZeroAddr
        /\ KeyAbsent(K_schash) => LastProposal.SCHash = ZeroHash

\* a command that gives mrpt alone, recorded after an earlier proposal with
\* every other field at its default
C32_Witness ==
    /\ pc = "returned" /\ ProposalCalled /\ ProposalAppended
    /\ lastTx.data = ProposalCmd(<<K_mrpt, <<"5">>>>)
    /\ Len(Before.CurrentBlockProposals) = 1
    /\ LastProposal = [DefaultProposal(lastTx, lastTx.sender) EXCEPT
                          !.MinerRewardPerThousand = 5]
    /\ LastProposal.MinerRewardPerThousand # minerRewardPerThousand

\* a command that gives its own window and rent length keeps the other
\* defaults
C32_WitnessGiven ==
    /\ pc = "returned" /\ ProposalCalled /\ ProposalAppended
    /\ ~KeyAbsent(K_scrl) /\ LastProposal.SCRentLength # 2550000
    /\ LastProposal.SCRentRate = 1

\* ---------------------------------------------------------------- C33

\* lastTx carries a command of the admin category, with this event token
AdminCommandFolded ==
    /\ Folded
    /\ IsDposCommand(lastTx.data, Split(lastTx.data))
    /\ Split(lastTx.data)[posCategory + 1] = dposCategoryAdmin
AdminEvent == Split(lastTx.data)[posAdminEvent + 1]

\* e with the field of the admin event ev taken back to what it was before
OwnFieldRestored(e, ev) ==
    CASE ev \in {dposAdminAddSigner, dposAdminDelSigner} ->
            [e EXCEPT !.CandidateSigners = Before.CandidateSigners]
      [] ev = dposAdminModifyAdmin -> [e EXCEPT !.SignerAdmin = Before.SignerAdmin]
      [] ev = dposAdminModifyMinerReward ->
            [e EXCEPT !.PerBlockReward = Before.PerBlockReward]
      [] ev = dposAdminModifyMinerRatio ->
            [e EXCEPT !.MinerRewardRatio = Before.MinerRewardRatio]
      [] OTHER -> e

StakesRestored(e) == [e EXCEPT !.ModifyPredecessorVotes = Before.ModifyPredecessorVotes]

C33_WitnessSigners ==
    /\ AdminCommandFolded /\ SentByAdmin /\ AdminEvent = dposAdminAddSigner
    /\ headerExtra.CandidateSigners # Before.CandidateSigners
C33_WitnessDel ==
    /\ AdminCommandFolded /\ SentByAdmin /\ AdminEvent = dposAdminDelSigner
    /\ headerExtra.CandidateSigners # Before.CandidateSigners
C33_WitnessAdmin ==
    /\ AdminCommandFolded /\ SentByAdmin /\ AdminEvent = dposAdminModifyAdmin
    /\ headerExtra.SignerAdmin # Before.SignerAdmin
C33_WitnessRatio ==
    /\ AdminCommandFolded /\ SentByAdmin /\ AdminEvent = dposAdminModifyMinerRatio
    /\ headerExtra.MinerRewardRatio # Before.MinerRewardRatio
C33_WitnessUnknown ==
    /\ AdminCommandFolded /\ SentByAdmin
    /\ AdminEvent = <<"b", "o", "g", "u", "s">> /\ headerExtra = Before

\* ---------------------------------------------------------------- C34

NoDuplicate(l) == \A i, j \in 1..Len(l) : i # j => l[i] # l[j]

\* the addresses of l that are in m too, in the order of l
Common(l, m) == SelectSeq(l, LAMBDA a : InList(m, a))

SignerCommand ==
    SentByAdmin /\ (Carries(AdminCmd(dposAdminAddSigner))
                    \/ Carries(AdminCmd(dposAdminDelSigner)))

C34_WitnessPresent ==
    /\ SentByAdmin /\ Carries(AdminCmd(dposAdminAddSigner))
    /\ Len(Before.CandidateSigners) = 2 /\ Before.CandidateSigners[1] = lastTx.to
    /\ headerExtra.CandidateSigners = Before.CandidateSigners
C34_WitnessOutside ==
    /\ SentByAdmin /\ Carries(AdminCmd(dposAdminDelSigner))
    /\ Len(Before.CandidateSigners) = 2 /\ ~InList(Before.CandidateSigners, lastTx.to)

\* ---------------------------------------------------------------- C35

\* the list the block started with: SignerQueue, which no command changes
StartedFull == Len(headerExtra.SignerQueue) = MaxSignerCount

\* C35: CandidateSigners, of at most MaxSignerCount addresses when the block
\* starts, has at most MaxSignerCount addresses after every command; adds on
\* a list of MaxSignerCount addresses leaves it as it was, and adds of a new
\* address on a list with room, as a dels leaves it, appends the address
C35_AtMostMaxSigners ==
    /\ Len(headerExtra.CandidateSigners) <= MaxSignerCount
    /\ (/\ SentByAdmin /\ Carries(AdminCmd(dposAdminAddSigner))
        /\ Len(Before.CandidateSigners) = MaxSignerCount)
          => headerExtra.CandidateSigners = Before.CandidateSigners
    /\ (/\ SentByAdmin /\ Carries(AdminCmd(dposAdminAddSigner))
        /\ Len(Before.CandidateSigners) < MaxSignerCount
        /\ ~InList(Before.CandidateSigners, lastTx.to))
          => headerExtra.CandidateSigners = Append(Before.CandidateSigners, lastTx.to)

\* the block started with a full list, a dels has made room, and the adds
\* folded now has filled the list again with a new address
C35_Witness ==
    /\ idx >= 2 /\ StartedFull
    /\ SentByAdmin /\ Carries(AdminCmd(dposAdminAddSigner))
    /\ Len(Before.CandidateSigners) = MaxSignerCount - 1
    /\ ~InList(Before.CandidateSigners, lastTx.to)
    /\ headerExtra.CandidateSigners = Append(Before.CandidateSigners, lastTx.to)
    /\ Len(headerExtra.CandidateSigners) = MaxSignerCount

\* adds of a new address refused on a full list
C35_WitnessFull ==
    /\ SentByAdmin /\ Carries(AdminCmd(dposAdminAddSigner))
    /\ Len(Before.CandidateSigners) = MaxSignerCount
    /\ ~InList(Before.CandidateSigners, lastTx.to)
    /\ headerExtra.CandidateSigners = Before.CandidateSigners

\* ---------------------------------------------------------------- C36

\* sent by the SignerAdmin in a transaction without recipient
AdminWithoutRecipient == Folded /\ lastTx.sender = Before.SignerAdmin /\ lastTx.to = NoTo

\* C36: an admin command sent by the SignerAdmin in a transaction without
\* recipient is not applied: CandidateSigners, SignerAdmin, PerBlockReward
\* and MinerRewardRatio stay as they were, also for a modreward or modratio
\* with a valid value
C36_RecipientRequired ==
    (AdminCommandFolded /\ AdminWithoutRecipient) => SameAdminFields(headerExtra, Before)

\* modreward:7 from the admin without recipient, on a reward that is not 7
C36_Witness ==
    /\ AdminWithoutRecipient /\ Carries(ModReward(<<"7">>))
    /\ Before.PerBlockReward # 7 /\ headerExtra.PerBlockReward = Before.PerBlockReward

C36_WitnessRatio ==
    /\ AdminWithoutRecipient /\ Carries(ModRatio(<<"7">>))
    /\ Before.MinerRewardRatio # 7 /\ headerExtra.MinerRewardRatio = Before.MinerRewardRatio

\* the same command with a recipient is applied
C36_WitnessApplied ==
    /\ SentByAdmin /\ Carries(ModReward(<<"7">>))
    /\ Before.PerBlockReward # 7 /\ headerExtra.PerBlockReward = 7

\* ---------------------------------------------------------------- C37

\* the keys whose value is stored after a conversion to uint64 alone
ConvertedKeys == {K_sccount, K_screward, K_proposal_type}

\* the value the command gives last for the key k
LastGiven(k) ==
    Atoi(PairVal(CHOOSE i \in 1..NPairs :
                    PairKey(i) = k /\ \A j \in (i + 1)..NPairs : PairKey(j) # k))

Stored(k) ==
    CASE k = K_sccount -> LastProposal.SCBlockCountPerPeriod
      [] k = K_screward -> LastProposal.SCBlockRewardPerPeriod
      [] k = K_proposal_type -> LastProposal.ProposalType

GivesNegative ==
    \E i \in 1..NPairs :
        PairKey(i) \in ConvertedKeys /\ Atoi(PairVal(i)).ok /\ Atoi(PairVal(i)).val < 0

\* C37: an accepted Proposal holds for sccount, screward and proposal_type the
\* integers the command gives, and a command that gives a negative integer
\* for one of them adds no record
C37_StoredAsWritten ==
    (pc = "returned" /\ ProposalCalled) =>
        /\ ProposalAppended =>
              \A k \in ConvertedKeys :
                  ~KeyAbsent(k) =>
                      Stored(k) = [wraps |-> 0, val |-> LastGiven(k).val]
        /\ GivesNegative => ProposalUnchanged

\* the record the code appends for sccount:-1: a count of 2^64 - 1
C37_RecordedWrapped ==
    /\ pc = "returned" /\ ProposalCalled /\ ProposalAppended
    /\ lastTx.data = ProposalCmd(<<K_sccount, <<"-", "1">>>>)
    /\ LastProposal.SCBlockCountPerPeriod = [wraps |-> 1, val |-> 0 - 1]

\* sccount:7 is stored as 7
C37_RecordedSeven ==
    /\ pc = "returned" /\ ProposalCalled /\ ProposalAppended
    /\ lastTx.data = ProposalCmd(<<K_sccount, <<"7">>>>)
    /\ LastProposal.SCBlockCountPerPeriod = Uint64(7)

\* ---------------------------------------------------------------- C38

RentAppended ==
    /\ pc = "returned" /\ ProposalCalled /\ ProposalAppended
    /\ LastProposal.ProposalType = Uint64(proposalTypeRentSideChain)

\* C38: an accepted rent-side-chain Proposal has a rent fee of minSCRentFee at
\* least and has cost the deposit and 100 coins at least; a rent command
\* without the key scrf is not accepted
C38_RentFeeAtLeastMin ==
    RentAppended =>
        /\ LastProposal.SCRentFee >= 100
        /\ Debited >= proposalDeposit + 100 * Ether
        /\ ~KeyAbsent(K_scrf)

\* the rent command without scrf, accepted with fee 0 for the deposit alone
C38_RecordedFree ==
    /\ RentAppended
    /\ lastTx.data = ProposalCmd(Pair_type8 \o Pair_sc1 \o Pair_scrtA3)
    /\ LastProposal.SCRentFee = 0 /\ Debited = proposalDeposit

\* the rent command with scrf:100, accepted for the deposit and 100 coins
C38_RecordedPaid ==
    /\ RentAppended /\ lastTx.data = Rent100
    /\ LastProposal.SCRentFee = 100 /\ Debited = proposalDeposit + 100 * Ether

\* ---------------------------------------------------------------- C39

Tokens == Split(lastTx.data)

\* the command without its last token
Trimmed == SubSeq(Tokens, 1, Len(Tokens) - 1)

\* a key stands last, after one complete pair at least, without a value
TrailingKey == Len(Tokens) >= 7 /\ (Len(Tokens) - 4) % 2 = 1

\* C39: a proposal or declare command of fewer than six tokens adds no
\* record and changes no balance; a last key without value plays no part:
\* the call does what it does for the command without that key
C39_PairRequired ==
    (pc = "returned" /\ (ProposalCalled \/ DeclareCalled)) =>
        /\ Len(Tokens) < 6 => (headerExtra = Before /\ balance = prev.balance)
        /\ (ProposalCalled /\ TrailingKey) =>
              LET r == processEventProposal(Before.CurrentBlockProposals, Trimmed,
                                            prev.balance, lastTx, lastTx.sender,
                                            Snapshot(voters, SideChains))
              IN headerExtra.CurrentBlockProposals = r.proposals /\ balance = r.state
        /\ (DeclareCalled /\ TrailingKey) =>
              headerExtra.CurrentBlockDeclares =
                 processEventDeclare(Before.CurrentBlockDeclares, Trimmed, lastTx,
                                     lastTx.sender)

\* a declare with the event token alone, after an earlier declare: dropped
C39_Witness ==
    /\ pc = "returned" /\ DeclareCalled
    /\ lastTx.data = Join(EventCmd(dposEventDeclare))
    /\ Len(Before.CurrentBlockDeclares) = 1 /\ headerExtra = Before

\* five tokens, a key without value: dropped, by a proposer who could pay
C39_WitnessFive ==
    /\ pc = "returned" /\ ProposalCalled /\ lastTx.data = ProposalCmd(<<K_mrpt>>)
    /\ Len(Tokens) = 5 /\ prev.balance[lastTx.sender] >= proposalDeposit
    /\ headerExtra = Before /\ balance = prev.balance
C39_WitnessFiveDeclare ==
    /\ pc = "returned" /\ DeclareCalled /\ lastTx.data = DeclareCmd(<<K_hash>>)
    /\ headerExtra = Before

\* mrpt:5 followed by the key vlcnt alone is recorded, with the default window
C39_WitnessTrailing ==
    /\ pc = "returned" /\ ProposalCalled /\ TrailingKey
    /\ lastTx.data = ProposalCmd(Pair_mrpt5 \o <<K_vlcnt>>)
    /\ ProposalAppended /\ LastProposal.MinerRewardPerThousand = 5
    /\ LastProposal.ValidationLoopCnt = defaultValidationLoopCnt
C39_WitnessTrailingDeclare ==
    /\ pc = "returned" /\ DeclareCalled /\ TrailingKey
    /\ lastTx.data = DeclareCmd(Pair_hash4 \o <<K_decision>>)
    /\ DeclareAppended /\ LastDeclare.Decision

\* ---------------------------------------------------------------- C40

CallMade == pc \in {"returned", "applied"}

\* C40: a call of processEventProposal changes no balance but the
\* proposer's, and the proposer's only when it appends a Proposal; a call of
\* processEventVote, processEventDeclare, processEventConfirm or
\* processPredecessorVoter and an admin command change no balance
C40_OnlyProposerPays ==
    CallMade =>
        IF ProposalCalled
        THEN /\ OnlySenderPaid
             /\ Debited # 0 => ProposalAppended
        ELSE balance = prev.balance

\* a proposal was appended after an earlier one and the proposer has paid
C40_Witness ==
    /\ CallMade /\ ProposalCalled /\ ProposalAppended
    /\ Len(Before.CurrentBlockProposals) = 1
    /\ Debited >= proposalDeposit /\ OnlySenderPaid

\* a rent refused for its side chain, from a proposer who could pay: no debit
C40_WitnessRefused ==
    /\ CallMade /\ ProposalCalled
    /\ lastTx.data = ProposalCmd(Pair_type8 \o Pair_sc1 \o Pair_scrf100)
    /\ prev.balance[lastTx.sender] >= proposalDeposit + 100 * Ether
    /\ ProposalUnchanged

\* the calls that read a balance and record it
C40_WitnessVote ==
    CallMade /\ lastTx.op = "vote" /\ NewRecords = 1 /\ balance = prev.balance
C40_WitnessPredecessor ==
    CallMade /\ lastTx.op = "predecessor" /\ NewRecords = 2 /\ balance = prev.balance
C40_WitnessAdmin ==
    /\ pc = "applied" /\ lastTx.op = "admin" /\ headerExtra # Before
    /\ balance = prev.balance
C40_WitnessConfirm ==
    CallMade /\ lastTx.op = "confirm" /\ NewRecords = 1 /\ balance = prev.balance
C40_WitnessDeclare ==
    CallMade /\ lastTx.op = "declare" /\ NewRecords = 1 /\ balance = prev.balance

=============================================================================
